---- MODULE Spec2Model ----
(***************************************************************************)
(* Model of the feed extraction / filtering / scoring / selection engine   *)
(* of linkedin-me: feed.js (strategies, parser, dedup,                     *)
(* findOneInterestingPost, getFeedPostsBatch) and filters.js (shouldSkip,  *)
(* compositeScore).                                                        *)
(*                                                                         *)
(* Text is modelled as a sequence of one-character strings, so that        *)
(* length, slice, toLowerCase and includes are computed as the code        *)
(* computes them.  The character U+2019 of AI_SPAM_SIGNALS[1] is written   *)
(* "`", the dash U+2014 of the grief reason "-", the bullet U+2022 of the  *)
(* age labels "*".                                                         *)
(***************************************************************************)
EXTENDS Integers, Sequences, FiniteSets, TLC

\* ------------------------------------------------------------------------
\*  String primitives (JavaScript String / Array methods used by the code)
\* ------------------------------------------------------------------------

Min(a, b) == IF a <= b THEN a ELSE b

Max(a, b) == IF a >= b THEN a ELSE b

UpperToLower ==
  [A |-> "a", B |-> "b", C |-> "c", D |-> "d", E |-> "e", F |-> "f", G |-> "g",
   H |-> "h", I |-> "i", J |-> "j", K |-> "k", L |-> "l", M |-> "m", N |-> "n",
   O |-> "o", P |-> "p", Q |-> "q", R |-> "r", S |-> "s", T |-> "t", U |-> "u",
   V |-> "v", W |-> "w", X |-> "x", Y |-> "y", Z |-> "z"]

UpperLetters == DOMAIN UpperToLower

LowerLetters == {UpperToLower[u] : u \in UpperLetters}

Digits == {"0", "1", "2", "3", "4", "5", "6", "7", "8", "9"}

IsLetter(c) == c \in LowerLetters \/ c \in UpperLetters

\* String.prototype.toLowerCase
toLowerCase(s) ==
  <<>> \o [i \in 1..Len(s) |-> IF s[i] \in UpperLetters THEN UpperToLower[s[i]] ELSE s[i]]

\* String.prototype.slice(0, n) / Array.prototype.slice(0, n)
sliceTo(s, n) == SubSeq(s, 1, Min(n, Len(s)))

\* Array.prototype.slice(k)
sliceFrom(s, k) == SubSeq(s, k + 1, Len(s))

\* String.prototype.includes
includes(t, kw) ==
  \/ Len(kw) = 0
  \/ \E i \in 1..(Len(t) - Len(kw) + 1) : t[i] = kw[1] /\ SubSeq(t, i, i + Len(kw) - 1) = kw

\* regex /^kw/ on a string
startsWith(t, kw) == Len(kw) <= Len(t) /\ \A j \in 1..Len(kw) : t[j] = kw[j]

\* Array.prototype.join(' ') on an array of strings
RECURSIVE join(_)
join(parts) ==
  IF Len(parts) = 0 THEN <<>>
  ELSE IF Len(parts) = 1 THEN parts[1]
  ELSE parts[1] \o <<" ">> \o join(Tail(parts))

\* ln.split(/\s+/).filter(Boolean).length : the number of whitespace-delimited words
wordCount(ln) ==
  Cardinality({i \in 1..Len(ln) : ln[i] # " " /\ (i = 1 \/ ln[i - 1] = " ")})

\* ------------------------------------------------------------------------
\*  filters.js : signal tables
\* ------------------------------------------------------------------------

AI_SPAM_SIGNALS ==
  << <<"i","n"," ","t","o","d","a","y","`","s"," ","f","a","s","t"," ","p","a","c","e","d"," ","w","o","r","l","d">>,
     <<"i","n"," ","t","o","d","a","y","s"," ","f","a","s","t"," ","p","a","c","e","d"," ","w","o","r","l","d">>,
     <<"i","n"," ","t","o","d","a","y","'","s"," ","f","a","s","t","-","p","a","c","e","d"," ","w","o","r","l","d">>,
     <<"a","s"," ","w","e"," ","n","a","v","i","g","a","t","e">>,
     <<"i","t"," ","i","s"," ","i","m","p","o","r","t","a","n","t"," ","t","o">>,
     <<"h","e","r","e"," ","a","r","e"," ","5"," ","l","e","s","s","o","n","s">>,
     <<"h","e","r","e"," ","a","r","e"," ","3"," ","l","e","s","s","o","n","s">>,
     <<"d","e","l","v","e"," ","i","n","t","o">>,
     <<"l","e","t","'","s"," ","d","i","v","e"," ","i","n">> >>

ENGAGEMENT_POD_SIGNALS ==
  << <<"n","i","c","e"," ","o","n","e"," ","b","r","o">>,
     <<"d","m"," ","s","e","n","t">>,
     <<"c","h","e","c","k"," ","i","n","b","o","x">>,
     <<"i","n","t","e","r","e","s","t","e","d">>,
     <<"g","r","e","a","t"," ","p","o","s","t">>,
     <<"t","h","a","n","k","s"," ","f","o","r"," ","s","h","a","r","i","n","g">>,
     <<"c","o","m","m","e","n","t","i","n","g"," ","f","o","r"," ","r","e","a","c","h">> >>

STORY_ARC_SIGNALS ==
  << <<"s","t","a","r","t","e","d">>,
     <<"f","a","i","l","e","d">>,
     <<"l","e","a","r","n","e","d">>,
     <<"r","e","a","l","i","z","e","d">>,
     <<"a","f","t","e","r"," ","3"," ","y","e","a","r","s">>,
     <<"i","n"," ","2","0","2","0">>,
     <<"i","n"," ","2","0","2","1">>,
     <<"i","n"," ","2","0","2","2">>,
     <<"w","e"," ","a","l","m","o","s","t">>,
     <<"i"," ","a","l","m","o","s","t">> >>

OTW_SIGNALS ==
  << <<"o","p","e","n"," ","t","o"," ","w","o","r","k">>,
     <<"o","p","e","n"," ","t","o"," ","o","p","p","o","r","t","u","n","i","t","i","e","s">>,
     <<"#","o","p","e","n","t","o","w","o","r","k">>,
     <<"o","p","e","n"," ","f","o","r"," ","w","o","r","k">>,
     <<"#","o","p","e","n","f","o","r","w","o","r","k">>,
     <<"a","c","t","i","v","e","l","y"," ","s","e","e","k","i","n","g">>,
     <<"a","c","t","i","v","e","l","y"," ","l","o","o","k","i","n","g">>,
     <<"a","v","a","i","l","a","b","l","e"," ","f","o","r"," ","h","i","r","e">>,
     <<"a","v","a","i","l","a","b","l","e"," ","f","o","r"," ","o","p","p","o","r","t","u","n","i","t","i","e","s">>,
     <<"j","o","b"," ","s","e","e","k","e","r">>,
     <<"#","j","o","b","s","e","e","k","e","r">>,
     <<"s","e","e","k","i","n","g"," ","e","m","p","l","o","y","m","e","n","t">>,
     <<"s","e","e","k","i","n","g"," ","a"," ","r","o","l","e">>,
     <<"s","e","e","k","i","n","g"," ","n","e","w"," ","r","o","l","e">>,
     <<"l","o","o","k","i","n","g"," ","f","o","r"," ","a"," ","j","o","b">>,
     <<"l","o","o","k","i","n","g"," ","f","o","r"," ","w","o","r","k">>,
     <<"l","o","o","k","i","n","g"," ","f","o","r"," ","o","p","p","o","r","t","u","n","i","t","i","e","s">>,
     <<"l","o","o","k","i","n","g"," ","f","o","r"," ","m","y"," ","n","e","x","t">>,
     <<"i","n"," ","s","e","a","r","c","h"," ","o","f">>,
     <<"o","p","e","n"," ","f","o","r"," ","j","o","b">>,
     <<"#","h","i","r","e","m","e">>,
     <<"#","l","o","o","k","i","n","g","f","o","r","j","o","b">> >>

STUDENT_SIGNALS ==
  << <<"s","t","u","d","e","n","t">>,
     <<"u","n","d","e","r","g","r","a","d","u","a","t","e">>,
     <<"u","n","d","e","r","g","r","a","d">>,
     <<"b","s","c"," ","s","t","u","d","e","n","t">>,
     <<"b","t","e","c","h"," ","s","t","u","d","e","n","t">>,
     <<"c","s"," ","s","t","u","d","e","n","t">>,
     <<"c","o","m","p","u","t","e","r"," ","s","c","i","e","n","c","e"," ","s","t","u","d","e","n","t">>,
     <<"e","n","g","i","n","e","e","r","i","n","g"," ","s","t","u","d","e","n","t">>,
     <<"m","b","a"," ","s","t","u","d","e","n","t">>,
     <<"i","n","t","e","r","n">>,
     <<"i","n","t","e","r","n","s","h","i","p">>,
     <<"f","r","e","s","h","e","r">>,
     <<"f","r","e","s","h"," ","g","r","a","d","u","a","t","e">>,
     <<"r","e","c","e","n","t"," ","g","r","a","d","u","a","t","e">>,
     <<"n","e","w"," ","g","r","a","d","u","a","t","e">>,
     <<"e","n","t","r","y"," ","l","e","v","e","l">>,
     <<"e","n","t","r","y","-","l","e","v","e","l">>,
     <<"j","u","n","i","o","r"," ","d","e","v","e","l","o","p","e","r">>,
     <<"a","s","p","i","r","i","n","g"," ","d","e","v","e","l","o","p","e","r">>,
     <<"a","s","p","i","r","i","n","g"," ","e","n","g","i","n","e","e","r">>,
     <<"a","s","p","i","r","i","n","g"," ","p","r","o","f","e","s","s","i","o","n","a","l">>,
     <<"a","s","p","i","r","i","n","g"," ","d","a","t","a"," ","s","c","i","e","n","t","i","s","t">>,
     <<"a","s","p","i","r","i","n","g"," ","s","o","f","t","w","a","r","e"," ","e","n","g","i","n","e","e","r">>,
     <<"c","a","r","e","e","r"," ","b","r","e","a","k">>,
     <<"c","a","r","e","e","r"," ","s","w","i","t","c","h">>,
     <<"c","a","r","e","e","r"," ","t","r","a","n","s","i","t","i","o","n">>,
     <<"b","o","o","t","c","a","m","p">>,
     <<"c","o","d","i","n","g"," ","b","o","o","t","c","a","m","p">>,
     <<"s","e","l","f","-","t","a","u","g","h","t">>,
     <<"s","e","l","f"," ","t","a","u","g","h","t">>,
     <<"l","e","a","r","n","i","n","g"," ","t","o"," ","c","o","d","e">>,
     <<"l","e","a","r","n","i","n","g"," ","p","r","o","g","r","a","m","m","i","n","g">> >>

JOB_POST_SIGNALS ==
  << <<"w","e","'","r","e"," ","h","i","r","i","n","g">>,
     <<"w","e"," ","a","r","e"," ","h","i","r","i","n","g">>,
     <<"n","o","w"," ","h","i","r","i","n","g">>,
     <<"j","o","i","n"," ","o","u","r"," ","t","e","a","m">>,
     <<"a","p","p","l","y"," ","n","o","w">>,
     <<"a","p","p","l","y"," ","h","e","r","e">>,
     <<"s","e","n","d"," ","y","o","u","r"," ","c","v">>,
     <<"s","e","n","d"," ","y","o","u","r"," ","r","e","s","u","m","e">>,
     <<"d","m"," ","m","e"," ","y","o","u","r"," ","c","v">>,
     <<"l","i","n","k"," ","i","n"," ","c","o","m","m","e","n","t","s"," ","t","o"," ","a","p","p","l","y">>,
     <<"j","o","b"," ","o","p","e","n","i","n","g">>,
     <<"j","o","b"," ","o","p","p","o","r","t","u","n","i","t","y">>,
     <<"j","o","b"," ","v","a","c","a","n","c","y">>,
     <<"o","p","e","n"," ","p","o","s","i","t","i","o","n">>,
     <<"o","p","e","n"," ","r","o","l","e">>,
     <<"c","u","r","r","e","n","t","l","y"," ","h","i","r","i","n","g">>,
     <<"#","h","i","r","i","n","g">>,
     <<"#","j","o","b","o","p","e","n","i","n","g">>,
     <<"#","v","a","c","a","n","c","y">>,
     <<"#","r","e","c","r","u","i","t","m","e","n","t">>,
     <<"#","r","e","c","r","u","i","t","i","n","g">> >>

SENTIMENT_SKIP_SIGNALS ==
  << <<"l","o","s","t"," ","m","y">>,
     <<"p","a","s","s","e","d"," ","a","w","a","y">>,
     <<"r","e","s","t"," ","i","n"," ","p","e","a","c","e">>,
     <<"r","i","p"," ">>,
     <<"w","e"," ","l","o","s","t">>,
     <<"d","i","a","g","n","o","s","e","d"," ","w","i","t","h">>,
     <<"c","a","n","c","e","r">>,
     <<"f","u","n","e","r","a","l">>,
     <<"g","r","i","e","v","i","n","g">>,
     <<"i","n"," ","m","o","u","r","n","i","n","g">>,
     <<"l","a","i","d"," ","o","f","f"," ","t","o","d","a","y">>,
     <<"j","u","s","t"," ","g","o","t"," ","l","a","i","d"," ","o","f","f">>,
     <<"j","u","s","t"," ","l","o","s","t"," ","m","y"," ","j","o","b">>,
     <<"h","e","a","l","t","h"," ","c","r","i","s","i","s">>,
     <<"m","e","n","t","a","l"," ","b","r","e","a","k","d","o","w","n">>,
     <<"s","u","i","c","i","d","e">>,
     <<"d","e","p","r","e","s","s","i","o","n">>,
     <<"s","t","r","u","g","g","l","i","n","g"," ","m","e","n","t","a","l","l","y">>,
     <<"l","o","s","t"," ","s","o","m","e","o","n","e">>,
     <<"t","r","a","g","e","d","y">>,
     <<"d","e","v","a","s","t","a","t","i","n","g"," ","n","e","w","s">> >>

NICHE_SIGNALS ==
  << <<"n","o","d","e","j","s">>,
     <<"n","o","d","e",".","j","s">>,
     <<"b","a","c","k","e","n","d">>,
     <<"a","p","i"," ","d","e","s","i","g","n">>,
     <<"r","e","s","t"," ","a","p","i">>,
     <<"g","r","a","p","h","q","l">>,
     <<"m","i","c","r","o","s","e","r","v","i","c","e","s">>,
     <<"d","i","s","t","r","i","b","u","t","e","d"," ","s","y","s","t","e","m","s">>,
     <<"s","y","s","t","e","m"," ","d","e","s","i","g","n">>,
     <<"a","r","c","h","i","t","e","c","t","u","r","e">>,
     <<"k","u","b","e","r","n","e","t","e","s">>,
     <<"d","o","c","k","e","r">>,
     <<"d","e","v","o","p","s">>,
     <<"c","i","/","c","d">>,
     <<"d","e","p","l","o","y","m","e","n","t">>,
     <<"n","e","x","t","j","s">>,
     <<"n","e","x","t",".","j","s">>,
     <<"r","e","a","c","t">>,
     <<"t","y","p","e","s","c","r","i","p","t">>,
     <<"f","u","l","l"," ","s","t","a","c","k">>,
     <<"f","u","l","l","s","t","a","c","k">>,
     <<"a","i"," ","w","o","r","k","f","l","o","w">>,
     <<"a","u","t","o","m","a","t","i","o","n">>,
     <<"n","8","n">>,
     <<"l","l","m">>,
     <<"a","i"," ","a","g","e","n","t">>,
     <<"o","p","e","n","a","i">>,
     <<"g","e","m","i","n","i">>,
     <<"l","a","n","g","c","h","a","i","n">>,
     <<"r","a","g">>,
     <<"p","r","o","m","p","t"," ","e","n","g","i","n","e","e","r","i","n","g">>,
     <<"s","a","a","s">>,
     <<"s","t","a","r","t","u","p">>,
     <<"f","o","u","n","d","e","r">>,
     <<"c","t","o">>,
     <<"c","e","o">>,
     <<"p","r","o","d","u","c","t">>,
     <<"e","n","g","i","n","e","e","r","i","n","g">>,
     <<"d","e","v","e","l","o","p","e","r"," ","e","x","p","e","r","i","e","n","c","e">>,
     <<"o","p","e","n"," ","s","o","u","r","c","e">>,
     <<"s","h","i","p","p","e","d">>,
     <<"l","a","u","n","c","h","e","d">> >>

GOOD_SIGNALS ==
  << <<"s","t","a","r","t","u","p">>,
     <<"f","o","u","n","d","e","r">>,
     <<"p","r","o","d","u","c","t">>,
     <<"e","n","g","i","n","e","e","r","i","n","g">>,
     <<"d","e","v","e","l","o","p","e","r">>,
     <<"s","o","f","t","w","a","r","e">>,
     <<"a","i">>,
     <<"m","a","c","h","i","n","e"," ","l","e","a","r","n","i","n","g">>,
     <<"d","e","v","o","p","s">>,
     <<"a","r","c","h","i","t","e","c","t","u","r","e">>,
     <<"d","e","s","i","g","n">>,
     <<"b","a","c","k","e","n","d">>,
     <<"l","e","a","d","e","r","s","h","i","p">>,
     <<"t","e","a","m">>,
     <<"l","e","s","s","o","n">>,
     <<"l","e","a","r","n","e","d">>,
     <<"m","i","s","t","a","k","e">>,
     <<"f","a","i","l","u","r","e">>,
     <<"g","r","o","w","t","h">>,
     <<"s","c","a","l","e">>,
     <<"s","t","r","a","t","e","g","y">>,
     <<"d","e","c","i","s","i","o","n">>,
     <<"i","n","s","i","g","h","t">>,
     <<"o","p","i","n","i","o","n">>,
     <<"b","u","i","l","t">>,
     <<"s","h","i","p","p","e","d">>,
     <<"l","a","u","n","c","h","e","d">>,
     <<"r","e","v","e","n","u","e">>,
     <<"m","r","r">>,
     <<"b","o","o","t","s","t","r","a","p">>,
     <<"o","p","e","n"," ","s","o","u","r","c","e">>,
     <<"a","u","t","o","m","a","t","i","o","n">>,
     <<"w","o","r","k","f","l","o","w">>,
     <<"e","x","p","e","r","i","e","n","c","e">>,
     <<"s","t","o","r","y">> >>

BAD_SIGNALS ==
  << <<"m","o","t","i","v","a","t","i","o","n","a","l"," ","q","u","o","t","e">>,
     <<"a","g","r","e","e","?">>,
     <<"s","h","a","r","e"," ","i","f"," ","y","o","u"," ","a","g","r","e","e">>,
     <<"r","e","p","o","s","t"," ","i","f">>,
     <<"d","o","u","b","l","e"," ","t","a","p">>,
     <<"h","u","m","b","l","e">>,
     <<"b","l","e","s","s","e","d">>,
     <<"g","r","a","t","e","f","u","l"," ","f","o","r">>,
     <<"l","i","k","e"," ","i","f">>,
     <<"c","o","m","m","e","n","t"," ","b","e","l","o","w">>,
     <<"w","h","a","t"," ","d","o"," ","y","o","u"," ","t","h","i","n","k","?">> >>

SENIORITY_SIGNALS ==
  << <<<<"f","o","u","n","d","e","r">>, 25>>,
     <<<<"c","o","-","f","o","u","n","d","e","r">>, 25>>,
     <<<<"c","e","o">>, 25>>,
     <<<<"c","t","o">>, 22>>,
     <<<<"c","h","i","e","f">>, 20>>,
     <<<<"v","p"," ">>, 20>>,
     <<<<"v","i","c","e"," ","p","r","e","s","i","d","e","n","t">>, 20>>,
     <<<<"p","a","r","t","n","e","r">>, 18>>,
     <<<<"d","i","r","e","c","t","o","r">>, 15>>,
     <<<<"h","e","a","d"," ","o","f">>, 15>>,
     <<<<"p","r","i","n","c","i","p","a","l">>, 14>>,
     <<<<"s","t","a","f","f"," ","e","n","g","i","n","e","e","r">>, 14>>,
     <<<<"s","t","a","f","f"," ","s","o","f","t","w","a","r","e">>, 14>>,
     <<<<"e","n","g","i","n","e","e","r","i","n","g"," ","m","a","n","a","g","e","r">>, 12>>,
     <<<<"p","r","o","d","u","c","t"," ","m","a","n","a","g","e","r">>, 12>>,
     <<<<"s","r",".">>, 10>>,
     <<<<"s","e","n","i","o","r">>, 10>>,
     <<<<"l","e","a","d"," ">>, 10>> >>

\* ------------------------------------------------------------------------
\*  filters.js : helpers and skip checks
\* ------------------------------------------------------------------------

\* parts.filter(Boolean).join(' ').toLowerCase()
lc(a, b, c) == toLowerCase(join(SelectSeq(<<a, b, c>>, LAMBDA p : Len(p) > 0)))

hasAny(text, signals) == \E k \in 1..Len(signals) : includes(text, signals[k])

\* a faulty clamp that leaves the value as it is
clampNot(val, min, max) == val

clamp(val, min, max) == Min(max, Max(min, val))

isOpenToWork(authorName, authorHeadline, postText) ==
  hasAny(lc(authorName, authorHeadline, sliceTo(postText, 400)), OTW_SIGNALS)

isStudent(authorName, authorHeadline, postText) ==
  hasAny(lc(authorName, authorHeadline, sliceTo(postText, 400)), STUDENT_SIGNALS)

isJobPost(postText) == hasAny(lc(<<>>, <<>>, sliceTo(postText, 800)), JOB_POST_SIGNALS)

isSentimentPost(postText) ==
  hasAny(lc(<<>>, <<>>, sliceTo(postText, 600)), SENTIMENT_SKIP_SIGNALS)

\* a faulty shouldSkip, without the grief / tragedy rule
shouldSkipWithoutSentiment(authorName, authorHeadline, postText) ==
  IF isOpenToWork(authorName, authorHeadline, postText)
    THEN [skip |-> TRUE, reason |-> "Author is Open To Work"]
  ELSE IF isStudent(authorName, authorHeadline, postText)
    THEN [skip |-> TRUE, reason |-> "Author appears to be a student / junior"]
  ELSE IF isJobPost(postText)
    THEN [skip |-> TRUE, reason |-> "Post is a job advertisement"]
  ELSE [skip |-> FALSE, reason |-> ""]

\* a faulty shouldSkip that tests the job rule before the student rule
shouldSkipJobFirst(authorName, authorHeadline, postText) ==
  IF isOpenToWork(authorName, authorHeadline, postText)
    THEN [skip |-> TRUE, reason |-> "Author is Open To Work"]
  ELSE IF isJobPost(postText)
    THEN [skip |-> TRUE, reason |-> "Post is a job advertisement"]
  ELSE IF isStudent(authorName, authorHeadline, postText)
    THEN [skip |-> TRUE, reason |-> "Author appears to be a student / junior"]
  ELSE IF isSentimentPost(postText)
    THEN [skip |-> TRUE, reason |-> "Post is about grief / tragedy - skip out of respect"]
  ELSE [skip |-> FALSE, reason |-> ""]

shouldSkip(authorName, authorHeadline, postText) ==
  IF isOpenToWork(authorName, authorHeadline, postText)
    THEN [skip |-> TRUE, reason |-> "Author is Open To Work"]
  ELSE IF isStudent(authorName, authorHeadline, postText)
    THEN [skip |-> TRUE, reason |-> "Author appears to be a student / junior"]
  ELSE IF isJobPost(postText)
    THEN [skip |-> TRUE, reason |-> "Post is a job advertisement"]
  ELSE IF isSentimentPost(postText)
    THEN [skip |-> TRUE, reason |-> "Post is about grief / tragedy - skip out of respect"]
  ELSE [skip |-> FALSE, reason |-> ""]

\* ------------------------------------------------------------------------
\*  filters.js : composite scoring.
\*  Sub-scores that the code computes as floating-point numbers are kept in
\*  thousandths of a point (truncated), the weighted total in 1/100000 of a
\*  point; Math.round(x) is floor(x + 0.5).
\* ------------------------------------------------------------------------

hits(t, signals) == Cardinality({k \in 1..Len(signals) : includes(t, signals[k])})

\* in points
calcHeuristicScore(postText, commentsData) ==
  LET t == lc(<<>>, <<>>, postText)
      len == Len(postText)
      lengthPts == (IF len > 300 THEN 15 ELSE 0) + (IF len > 600 THEN 10 ELSE 0)
                   + (IF len > 1000 THEN 5 ELSE 0)
      storyPts == IF hits(t, STORY_ARC_SIGNALS) >= 2 THEN 20 ELSE 0
      commentsText == toLowerCase(join(commentsData))
      podPts == IF Len(commentsData) > 0 /\ hits(commentsText, ENGAGEMENT_POD_SIGNALS) >= 2
                THEN 30 ELSE 0
      score == lengthPts + 5 * hits(t, GOOD_SIGNALS) - 10 * hits(t, BAD_SIGNALS)
               + storyPts - 20 * hits(t, AI_SPAM_SIGNALS) - podPts
  IN IF len < 100 THEN 0 ELSE clamp(score, 0, 100)

\* floor(10^6 * log10(n)) for the values of reactionCount + 1 the model's cards and
\* calls produce
Log10Micro ==
  [n \in {5, 6, 9, 16, 21, 31, 51, 101, 121, 151, 501, 502, 1201, 5001, 10001} |->
     CASE n = 5 -> 698970
       [] n = 6 -> 778151
       [] n = 9 -> 954242
       [] n = 16 -> 1204119
       [] n = 21 -> 1322219
       [] n = 31 -> 1491361
       [] n = 51 -> 1707570
       [] n = 101 -> 2004321
       [] n = 121 -> 2082785
       [] n = 151 -> 2178976
       [] n = 501 -> 2699837
       [] n = 502 -> 2700703
       [] n = 1201 -> 3079543
       [] n = 5001 -> 3699056
       [] n = 10001 -> 4000043]

\* a faulty calcEngagementScore whose too-new band ends below 4 reactions
calcEngagementScoreTooNewBelow4(reactionCount, commentCount) ==
  IF reactionCount < 4 THEN 10000
  ELSE IF reactionCount > 10000 THEN 15000
  ELSE IF commentCount > 200 THEN 10000
  ELSE LET reactionScore == (Log10Micro[reactionCount + 1] * 20) \div 1000
           sweetSpot == IF reactionCount >= 20 /\ reactionCount <= 500 THEN 20000 ELSE 0
       IN clamp(reactionScore + sweetSpot, 0, 100000)

\* in thousandths of a point
calcEngagementScore(reactionCount, commentCount) ==
  IF reactionCount < 5 THEN 10000
  ELSE IF reactionCount > 10000 THEN 15000
  ELSE IF commentCount > 200 THEN 10000
  ELSE LET reactionScore == (Log10Micro[reactionCount + 1] * 20) \div 1000
           sweetSpot == IF reactionCount >= 20 /\ reactionCount <= 500 THEN 20000 ELSE 0
       IN clamp(reactionScore + sweetSpot, 0, 100000)

\* a faulty calcSeniorityScore that takes the last matching entry of the table
calcSeniorityScoreLastMatch(authorHeadline) ==
  LET hl == toLowerCase(authorHeadline)
      proxyBoost ==
        (IF includes(hl, <<"c","r","e","a","t","o","r">>)
            \/ includes(hl, <<"n","e","w","s","l","e","t","t","e","r">>) THEN 15 ELSE 0)
        + (IF includes(hl, <<"a","n","g","e","l">>)
              \/ includes(hl, <<"i","n","v","e","s","t","o","r">>) THEN 10 ELSE 0)
      matching == {k \in 1..Len(SENIORITY_SIGNALS) : includes(hl, SENIORITY_SIGNALS[k][1])}
      last == CHOOSE k \in matching : \A m \in matching : k >= m
      rawScore == IF matching = {} THEN 20 ELSE SENIORITY_SIGNALS[last][2] * 4
  IN clamp(Min(rawScore, 80) + proxyBoost, 0, 100)

\* in points
calcSeniorityScore(authorHeadline) ==
  LET hl == toLowerCase(authorHeadline)
      proxyBoost ==
        (IF includes(hl, <<"c","r","e","a","t","o","r">>)
            \/ includes(hl, <<"n","e","w","s","l","e","t","t","e","r">>) THEN 15 ELSE 0)
        + (IF includes(hl, <<"a","n","g","e","l">>)
              \/ includes(hl, <<"i","n","v","e","s","t","o","r">>) THEN 10 ELSE 0)
      matching == {k \in 1..Len(SENIORITY_SIGNALS) : includes(hl, SENIORITY_SIGNALS[k][1])}
      first == CHOOSE k \in matching : \A m \in matching : k <= m
      rawScore == IF matching = {} THEN 20 ELSE SENIORITY_SIGNALS[first][2] * 4
  IN clamp(Min(rawScore, 80) + proxyBoost, 0, 100)

\* in points
calcNicheScore(postText) == clamp(hits(lc(<<>>, <<>>, postText), NICHE_SIGNALS) * 15, 0, 100)

\* the age label carries "m <bullet>" or "1h <bullet>" (the bullet U+2022 is written "*")
isJustPosted(postAge) ==
  LET lowerAge == toLowerCase(postAge)
  IN includes(lowerAge, <<"m"," ","*">>) \/ includes(lowerAge, <<"1","h"," ","*">>)

\* in thousandths of a point
calcRecencyScore(positionIndex, totalPosts, postAge) ==
  LET base == IF totalPosts > 0
              THEN (100000 * (totalPosts - positionIndex)) \div totalPosts
              ELSE 50000
  IN clamp(base + (IF isJustPosted(postAge) THEN 20000 ELSE 0), 0, 100000)

\* a faulty calcCommentVisibilityScore with the values of two steps exchanged
calcCommentVisibilityScoreSwapped(commentCount) ==
  IF commentCount <= 5 THEN 90
  ELSE IF commentCount <= 20 THEN 100
  ELSE IF commentCount <= 50 THEN 75
  ELSE IF commentCount <= 100 THEN 25
  ELSE IF commentCount <= 200 THEN 50
  ELSE 10

\* in points
calcCommentVisibilityScore(commentCount) ==
  IF commentCount <= 5 THEN 90
  ELSE IF commentCount <= 20 THEN 100
  ELSE IF commentCount <= 50 THEN 75
  ELSE IF commentCount <= 100 THEN 50
  ELSE IF commentCount <= 200 THEN 25
  ELSE 10

\* a destructured parameter with its default value
Field(post, name, default) == IF name \in DOMAIN post THEN post[name] ELSE default

RECURSIVE sumLen(_)
sumLen(strs) == IF Len(strs) = 0 THEN 0 ELSE Len(strs[1]) + sumLen(Tail(strs))

\* Math.round of a value given in thousandths
roundMilli(v) == (v + 500) \div 1000

compositeScore(post) ==
  LET postText == Field(post, "postText", <<>>)
      authorHeadline == Field(post, "authorHeadline", <<>>)
      reactionCount == Field(post, "reactionCount", 0)
      commentCount == Field(post, "commentCount", 0)
      positionIndex == Field(post, "positionIndex", 0)
      totalPosts == Field(post, "totalPosts", 10)
      isConnection == Field(post, "isConnection", FALSE)
      postFormat == Field(post, "postFormat", "text")
      commentsData == Field(post, "commentsData", <<>>)
      authorReplied == Field(post, "authorReplied", FALSE)
      postAge == Field(post, "postAge", <<>>)
      seniority == calcSeniorityScore(authorHeadline)
      niche == calcNicheScore(postText)
      recency == calcRecencyScore(positionIndex, totalPosts, postAge)
      visibility == calcCommentVisibilityScore(commentCount)
      heuristic0 ==
        calcHeuristicScore(postText, commentsData)
        + (IF reactionCount >= 15 /\ reactionCount <= 150 /\ commentCount <= 40 THEN 15 ELSE 0)
        + (IF isConnection THEN 15 ELSE 0)
        + (IF postFormat = "text" THEN 10 ELSE 0)
        + (IF postFormat = "image" THEN 5 ELSE 0)
        - (IF postFormat = "poll" THEN 10 ELSE 0)
        + (IF Len(commentsData) > 0 /\ sumLen(commentsData) < 50 * Len(commentsData)
           THEN 20 ELSE 0)
        + (IF authorReplied THEN 20 ELSE 0)
      engagement0 ==
        calcEngagementScore(reactionCount, commentCount)
        + (IF isJustPosted(postAge) /\ reactionCount >= 50 THEN 20000 ELSE 0)
      heuristic == clamp(heuristic0, 0, 100)
      engagement == clamp(engagement0, 0, 100000)
      \* in 1/100000 of a point
      total == 35 * (1000 * heuristic) + 15 * engagement + 15 * (1000 * visibility)
               + 15 * (1000 * seniority) + 10 * (1000 * niche) + 10 * recency
  IN [total |-> (clamp(total, 0, 10000000) + 50000) \div 100000,
      breakdown |-> [heuristic |-> heuristic,
                     engagement |-> roundMilli(engagement),
                     seniority |-> seniority,
                     niche |-> niche,
                     recency |-> roundMilli(recency),
                     visibility |-> visibility],
      shouldComment |-> total >= 3000000]

\* ------------------------------------------------------------------------
\*  feed.js : engagement extraction
\*  The card text handed to parseEngagement is modelled by the card's lines
\*  and by the two strings captured by the regular expressions
\*  /([\d,\.]+\s*[Kk]?)\s+reactions?/i and /([\d,\.]+\s*[Kk]?)\s+comments?/i
\*  (<<>> when the expression does not match).
\* ------------------------------------------------------------------------

DigitVal(c) ==
  CASE c = "0" -> 0 [] c = "1" -> 1 [] c = "2" -> 2 [] c = "3" -> 3 [] c = "4" -> 4
    [] c = "5" -> 5 [] c = "6" -> 6 [] c = "7" -> 7 [] c = "8" -> 8 [] c = "9" -> 9

\* the length of the longest prefix of s made of digits
RECURSIVE digitRun(_)
digitRun(s) == IF Len(s) > 0 /\ s[1] \in Digits THEN 1 + digitRun(Tail(s)) ELSE 0

RECURSIVE digitsValue(_)
digitsValue(s) == IF Len(s) = 0 THEN 0 ELSE 10 * digitsValue(SubSeq(s, 1, Len(s) - 1)) + DigitVal(s[Len(s)])

\* parseCount: commas removed, trimmed, upper-cased; with a K the value of
\* parseFloat times 1000 rounded, else parseInt(s) || 0.  Fractions of up to
\* three digits are handled (the labels of the model have at most one).
parseCount(str) ==
  LET s == SelectSeq(str, LAMBDA c : c # "," /\ c # " ")
      n == digitRun(s)
      intPart == digitsValue(SubSeq(s, 1, n))
      rest == SubSeq(s, n + 1, Len(s))
      fracLen == IF Len(rest) > 0 /\ rest[1] = "." THEN Min(3, digitRun(Tail(rest))) ELSE 0
      frac == digitsValue(SubSeq(rest, 2, 1 + fracLen))
      fracMilli == CASE fracLen = 0 -> 0 [] fracLen = 1 -> frac * 100
                     [] fracLen = 2 -> frac * 10 [] fracLen = 3 -> frac
      hasK == \E i \in 1..Len(s) : s[i] \in {"K", "k"}
  IN IF hasK THEN intPart * 1000 + fracMilli
     ELSE intPart

parseEngagement(cardText) ==
  [reactionCount |-> IF Len(cardText.reactionMatch) > 0 THEN parseCount(cardText.reactionMatch) ELSE 0,
   commentCount |-> IF Len(cardText.commentMatch) > 0 THEN parseCount(cardText.commentMatch) ELSE 0]

\* ------------------------------------------------------------------------
\*  feed.js : author name parser
\* ------------------------------------------------------------------------

fakePrefixes ==
  << <<"f","e","e","d"," ","p","o","s","t">>, <<"l","i","n","k","e","d","i","n"," ","m","e","m","b","e","r">>, <<"u","n","k","n","o","w","n">>, <<"p","o","s","t"," ","n","u","m","b","e","r">>,
     <<"s","p","o","n","s","o","r","e","d">>, <<"p","r","o","m","o","t","e","d">>, <<"s","e","e"," ","m","o","r","e">>, <<"f","o","l","l","o","w","i","n","g">> >>

fakeExact ==
  << <<"f","o","l","l","o","w">>, <<"c","o","n","n","e","c","t">>, <<"m","e","s","s","a","g","e">>, <<"l","i","k","e">>, <<"c","o","m","m","e","n","t">>, <<"s","h","a","r","e">>, <<"s","e","n","d">> >>

allDigits(s) == Len(s) > 0 /\ \A i \in 1..Len(s) : s[i] \in Digits

hasLetter(s) == \E i \in 1..Len(s) : IsLetter(s[i])

isRealAuthorName(name) ==
  LET lower == toLowerCase(name)
  IN /\ Len(name) >= 3
     /\ Len(name) <= 80
     /\ ~ \E k \in 1..Len(fakePrefixes) : startsWith(lower, fakePrefixes[k])
     /\ ~ \E k \in 1..Len(fakeExact) : lower = fakeExact[k]
     /\ ~ allDigits(lower)
     /\ hasLetter(name)

\* !ln || ln.length > 80 || ln.includes('http')
rejectedLine(ln) == Len(ln) = 0 \/ Len(ln) > 80 \/ includes(ln, <<"h","t","t","p">>)

\* a faulty parsed that never takes the first line into the post text
parsedWithoutFirstLine(lines, authorName, authorHeadline, bodyStart) ==
  [authorName |-> IF Len(authorName) > 0 THEN authorName ELSE <<"U","n","k","n","o","w","n">>,
   authorHeadline |-> authorHeadline,
   postText |-> join(sliceFrom(lines, Max(bodyStart, 1))),
   isConnection |-> \/ includes(toLowerCase(authorHeadline), <<"1","s","t">>)
                    \/ \E k \in 1..Min(3, Len(lines)) : includes(toLowerCase(lines[k]), <<"1","s","t">>)]

\* the connection marker, and the record the parser returns
parsed(lines, authorName, authorHeadline, bodyStart) ==
  [authorName |-> IF Len(authorName) > 0 THEN authorName ELSE <<"U","n","k","n","o","w","n">>,
   authorHeadline |-> authorHeadline,
   postText |-> join(sliceFrom(lines, bodyStart)),
   isConnection |-> \/ includes(toLowerCase(authorHeadline), <<"1","s","t">>)
                    \/ \E k \in 1..Min(3, Len(lines)) : includes(toLowerCase(lines[k]), <<"1","s","t">>)]

\* The copy of parseAuthorFromLines declared inside the page.evaluate callbacks of
\* collectByLinkWalk and collectByDataUrn.  i is the 0-based loop index.
RECURSIVE inPageLoop(_, _, _, _, _)
inPageLoop(lines, i, authorName, authorHeadline, bodyStart) ==
  IF i >= Min(Len(lines), 15) THEN parsed(lines, authorName, authorHeadline, bodyStart)
  ELSE LET ln == lines[i + 1]
           wc == wordCount(ln)
       IN IF rejectedLine(ln)
          THEN IF Len(authorName) > 0
               THEN parsed(lines, authorName, authorHeadline, bodyStart)
               ELSE inPageLoop(lines, i + 1, authorName, authorHeadline, bodyStart)
          ELSE IF Len(authorName) = 0
          THEN IF wc >= 1 /\ wc <= 8 /\ isRealAuthorName(ln)
               THEN inPageLoop(lines, i + 1, ln, authorHeadline, i + 1)
               ELSE inPageLoop(lines, i + 1, authorName, authorHeadline, bodyStart)
          ELSE IF Len(authorHeadline) = 0 /\ wc <= 14
          THEN inPageLoop(lines, i + 1, authorName, ln, i + 1)
          ELSE parsed(lines, authorName, authorHeadline, bodyStart)

inPageParseAuthorFromLines(lines) == inPageLoop(lines, 0, <<>>, <<>>, 0)

\* /^(feed post|linkedin member|sponsored|promoted|see more|following|connect|
\*    message|like|comment|share|send|\d+)$/i
chromeExact ==
  << <<"f","e","e","d"," ","p","o","s","t">>, <<"l","i","n","k","e","d","i","n"," ","m","e","m","b","e","r">>, <<"s","p","o","n","s","o","r","e","d">>, <<"p","r","o","m","o","t","e","d">>, <<"s","e","e"," ","m","o","r","e">>,
     <<"f","o","l","l","o","w","i","n","g">>, <<"c","o","n","n","e","c","t">>, <<"m","e","s","s","a","g","e">>, <<"l","i","k","e">>, <<"c","o","m","m","e","n","t">>, <<"s","h","a","r","e">>, <<"s","e","n","d">> >>

isChromeLine(ln) ==
  LET lower == toLowerCase(ln)
  IN (\E k \in 1..Len(chromeExact) : lower = chromeExact[k]) \/ allDigits(ln)

\* The module-level parseAuthorFromLines: of the two declarations in the module
\* the later one is the binding in force.
RECURSIVE moduleLoop(_, _, _, _, _)
moduleLoop(lines, i, authorName, authorHeadline, bodyStart) ==
  IF i >= Min(Len(lines), 15) THEN parsed(lines, authorName, authorHeadline, bodyStart)
  ELSE LET ln == lines[i + 1]
           wc == wordCount(ln)
       IN IF rejectedLine(ln)
          THEN IF Len(authorName) > 0
               THEN parsed(lines, authorName, authorHeadline, bodyStart)
               ELSE moduleLoop(lines, i + 1, authorName, authorHeadline, bodyStart)
          ELSE IF isChromeLine(ln)
          THEN moduleLoop(lines, i + 1, authorName, authorHeadline, bodyStart)
          ELSE IF Len(authorName) = 0
          THEN IF wc >= 1 /\ wc <= 8 /\ hasLetter(ln)
               THEN moduleLoop(lines, i + 1, ln, authorHeadline, i + 1)
               ELSE moduleLoop(lines, i + 1, authorName, authorHeadline, bodyStart)
          ELSE IF Len(authorHeadline) = 0 /\ wc <= 14
          THEN moduleLoop(lines, i + 1, authorName, ln, i + 1)
          ELSE parsed(lines, authorName, authorHeadline, bodyStart)

parseAuthorFromLines(lines) == moduleLoop(lines, 0, <<>>, <<>>, 0)

\* ------------------------------------------------------------------------
\*  feed.js : the page as the strategies see it.
\*  An element is [lines, reactionMatch, commentMatch, components, comments,
\*  subDescription]: lines are the non-empty trimmed lines of its innerText.
\*  page.anchors : the <a> elements in document order, [href, ancestors]
\*  page.urnElems: the elements carrying data-urn / data-id / data-entity-urn,
\*                 [urn, el]
\*  page.body    : document.body.innerText as its blank-line separated chunks
\* ------------------------------------------------------------------------

Null == <<"null">>

\* a faulty truth test that takes only the empty string for falsy, not null
falsyOnlyEmpty(x) == x = <<>>

\* !x for a value that is a string or null
falsy(x) == x = Null \/ x = <<>>

RECURSIVE joinNl(_)
joinNl(lines) ==
  IF Len(lines) = 0 THEN <<>>
  ELSE IF Len(lines) = 1 THEN lines[1]
  ELSE lines[1] \o <<"\n">> \o joinNl(Tail(lines))

\* (el.innerText || '').trim().length
innerTextLength(lines) == IF Len(lines) = 0 THEN 0 ELSE sumLen(lines) + Len(lines) - 1

cardTextOf(el) ==
  [lines |-> el.lines, reactionMatch |-> el.reactionMatch, commentMatch |-> el.commentMatch]

\* the querySelector cascade that classifies the post format
postFormatOf(el) ==
  IF "poll" \in el.components THEN "poll"
  ELSE IF "document" \in el.components THEN "carousel"
  ELSE IF "video" \in el.components THEN "video"
  ELSE IF "image" \in el.components THEN "image"
  ELSE "text"

\* the first three .comments-comment-item elements
commentsDataOf(el) == [i \in 1..Min(Len(el.comments), 3) |-> el.comments[i].text]

authorRepliedOf(el, authorName) ==
  \E i \in 1..Min(Len(el.comments), 3) :
    toLowerCase(el.comments[i].author) = toLowerCase(authorName)

\* the record pushed by collectByLinkWalk and collectByDataUrn
postOf(url, el) ==
  LET authorInfo == inPageParseAuthorFromLines(el.lines)
  IN [postUrl |-> url,
      cardText |-> cardTextOf(el),
      authorName |-> authorInfo.authorName,
      authorHeadline |-> authorInfo.authorHeadline,
      postText |-> authorInfo.postText,
      isConnection |-> authorInfo.isConnection,
      postFormat |-> postFormatOf(el),
      commentsData |-> commentsDataOf(el),
      authorReplied |-> authorRepliedOf(el, authorInfo.authorName),
      postAge |-> el.subDescription]

\* raw.filter((p) => p.postText.length >= 80)
longEnough(raw) == SelectSeq(raw, LAMBDA p : Len(p.postText) >= 80)

\* href.split('?')[0]
RECURSIVE beforeQuery(_)
beforeQuery(href) ==
  IF Len(href) = 0 \/ href[1] = "?" THEN <<>> ELSE <<href[1]>> \o beforeQuery(Tail(href))

nonContentDestinations ==
  << <<"/","c","o","m","p","a","n","y">>, <<"/","j","o","b","s">>, <<"/","l","e","a","r","n","i","n","g">>, <<"/","m","e","s","s","a","g","i","n","g">>, <<"/","n","o","t","i","f","i","c","a","t","i","o","n","s">>,
     <<"/","m","y","n","e","t","w","o","r","k">> >>

linkedinOrigin == <<"h","t","t","p","s",":","/","/","w","w","w",".","l","i","n","k","e","d","i","n",".","c","o","m">>

urlOfHref(href) ==
  IF startsWith(href, <<"h","t","t","p">>) THEN beforeQuery(href)
  ELSE linkedinOrigin \o beforeQuery(href)

\* new Set([...querySelectorAll('a[href*="/posts/"]'), ...'a[href*="/feed/update/"]',
\*          ...'a[href*="ugcPost"]', ...'a[href*="activity"]']) : indices into
\* page.anchors in the iteration order of the Set
anchorSelectors == << <<"/","p","o","s","t","s","/">>, <<"/","f","e","e","d","/","u","p","d","a","t","e","/">>, <<"u","g","c","P","o","s","t">>, <<"a","c","t","i","v","i","t","y">> >>

RECURSIVE selectedAnchors(_, _, _)
selectedAnchors(anchors, s, acc) ==
  IF s > Len(anchorSelectors) THEN acc
  ELSE LET all == [i \in 1..Len(anchors) |-> i]
           inAcc(i) == \E j \in 1..Len(acc) : acc[j] = i
           more == SelectSeq(all, LAMBDA i : includes(anchors[i].href, anchorSelectors[s])
                                             /\ ~ inAcc(i))
       IN selectedAnchors(anchors, s + 1, acc \o more)

\* walk up to the first ancestor whose trimmed innerText has 150..30000 characters
\* (at most 25 levels); 0 when there is none
RECURSIVE walkUp(_, _)
walkUp(ancestors, d) ==
  IF d > Min(Len(ancestors), 25) THEN 0
  ELSE IF innerTextLength(ancestors[d].lines) >= 150 /\ innerTextLength(ancestors[d].lines) <= 30000
  THEN d
  ELSE walkUp(ancestors, d + 1)

RECURSIVE linkWalkLoop(_, _, _, _, _)
linkWalkLoop(anchors, order, k, seenUrls, results) ==
  IF k > Len(order) THEN results
  ELSE LET anchor == anchors[order[k]]
           href == anchor.href
           url == urlOfHref(href)
           d == walkUp(anchor.ancestors, 1)
       IN IF \/ Len(href) = 0
             \/ \E n \in 1..Len(nonContentDestinations) : includes(href, nonContentDestinations[n])
             \/ href = <<"/","f","e","e","d","/">>
             \/ href = <<"/">>
          THEN linkWalkLoop(anchors, order, k + 1, seenUrls, results)
          ELSE IF url \in seenUrls
          THEN linkWalkLoop(anchors, order, k + 1, seenUrls, results)
          ELSE IF d = 0
          THEN linkWalkLoop(anchors, order, k + 1, seenUrls \cup {url}, results)
          ELSE linkWalkLoop(anchors, order, k + 1, seenUrls \cup {url},
                            Append(results, postOf(url, anchor.ancestors[d])))

collectByLinkWalk(page) ==
  longEnough(linkWalkLoop(page.anchors, selectedAnchors(page.anchors, 1, <<>>), 1, {}, <<>>))

\* urn.match(/activity[:\-](\d+)/) : the captured digits, <<>> when there is no match
RECURSIVE activityId(_)
activityId(urn) ==
  IF Len(urn) = 0 THEN <<>>
  ELSE IF (startsWith(urn, <<"a","c","t","i","v","i","t","y",":">>) \/ startsWith(urn, <<"a","c","t","i","v","i","t","y","-">>))
          /\ digitRun(SubSeq(urn, 10, Len(urn))) > 0
  THEN SubSeq(urn, 10, 9 + digitRun(SubSeq(urn, 10, Len(urn))))
  ELSE activityId(Tail(urn))

RECURSIVE dataUrnLoop(_, _, _, _)
dataUrnLoop(elems, k, seen, results) ==
  IF k > Len(elems) THEN results
  ELSE LET urn == elems[k].urn
           el == elems[k].el
           id == activityId(urn)
           postUrl == <<"h","t","t","p","s",":","/","/","w","w","w",".","l","i","n","k","e","d","i","n",".","c","o","m","/","f","e","e","d","/","u","p","d","a","t","e","/","u","r","n",":","l","i",":","a","c","t","i","v","i","t","y",":">> \o id \o <<"/">>
       IN IF Len(urn) = 0 \/ urn \in seen
          THEN dataUrnLoop(elems, k + 1, seen, results)
          ELSE IF Len(id) = 0 \/ innerTextLength(el.lines) < 150
          THEN dataUrnLoop(elems, k + 1, seen \cup {urn}, results)
          ELSE dataUrnLoop(elems, k + 1, seen \cup {urn}, Append(results, postOf(postUrl, el)))

collectByDataUrn(page) == longEnough(dataUrnLoop(page.urnElems, 1, {}, <<>>))

navigationChrome ==
  << <<"h","o","m","e">>, <<"m","y"," ","n","e","t","w","o","r","k">>, <<"j","o","b","s">>, <<"m","e","s","s","a","g","i","n","g">>, <<"n","o","t","i","f","i","c","a","t","i","o","n","s">>, <<"s","e","a","r","c","h">> >>

RECURSIVE sumWords(_)
sumWords(lines) == IF Len(lines) = 0 THEN 0 ELSE wordCount(lines[1]) + sumWords(Tail(lines))

\* document.body.innerText.length : the chunks are separated by one blank line
RECURSIVE bodyLength(_)
bodyLength(chunks) ==
  IF Len(chunks) = 0 THEN 0
  ELSE IF Len(chunks) = 1 THEN innerTextLength(chunks[1])
  ELSE innerTextLength(chunks[1]) + 2 + bodyLength(Tail(chunks))

RECURSIVE bodyTextLoop(_, _, _, _)
bodyTextLoop(chunks, k, seen, results) ==
  IF k > Len(chunks) THEN results
  ELSE LET lines == chunks[k]
           length == innerTextLength(lines)
           lower == toLowerCase(joinNl(lines))
           key == sliceTo(joinNl(lines), 50)
           info == parseAuthorFromLines(lines)
       IN IF \/ length < 120
             \/ length > 5000
             \/ sumWords(lines) < 10
             \/ \E n \in 1..Len(navigationChrome) : startsWith(lower, navigationChrome[n])
             \/ key \in seen
          THEN bodyTextLoop(chunks, k + 1, seen, results)
          ELSE bodyTextLoop(chunks, k + 1, seen \cup {key},
                 Append(results,
                        [postUrl |-> Null,
                         cardText |-> [lines |-> lines, reactionMatch |-> <<>>, commentMatch |-> <<>>],
                         authorName |-> info.authorName,
                         authorHeadline |-> info.authorHeadline,
                         postText |-> info.postText,
                         isConnection |-> info.isConnection,
                         postFormat |-> "text",
                         commentsData |-> <<>>,
                         authorReplied |-> FALSE,
                         postAge |-> <<>>]))

collectByBodyText(page) ==
  IF bodyLength(page.body) < 500 THEN <<>> ELSE bodyTextLoop(page.body, 1, {}, <<>>)

\* ------------------------------------------------------------------------
\*  feed.js : dedup
\* ------------------------------------------------------------------------

\* a faulty dedup loop that puts each retained post in front (unshift for push)
RECURSIVE dedupLoopUnshift(_, _, _, _, _)
dedupLoopUnshift(posts, k, seenUrls, seenText, kept) ==
  IF k > Len(posts) THEN kept
  ELSE LET p == posts[k]
           textKey == sliceTo(p.postText, 60)
       IN IF textKey \in seenText
          THEN dedupLoopUnshift(posts, k + 1, seenUrls, seenText, kept)
          ELSE IF ~ falsy(p.postUrl) /\ p.postUrl \in seenUrls
          THEN dedupLoopUnshift(posts, k + 1, seenUrls, seenText \cup {textKey}, kept)
          ELSE dedupLoopUnshift(posts, k + 1,
                                IF falsy(p.postUrl) THEN seenUrls ELSE seenUrls \cup {p.postUrl},
                                seenText \cup {textKey}, <<p>> \o kept)

\* a faulty dedup whose single key is the URL when there is one, the first 60
\* characters of the text otherwise
RECURSIVE dedupLoopOneKey(_, _, _, _)
dedupLoopOneKey(posts, k, seen, kept) ==
  IF k > Len(posts) THEN kept
  ELSE LET p == posts[k]
           key == IF falsy(p.postUrl) THEN <<"text", sliceTo(p.postText, 60)>>
                  ELSE <<"url", p.postUrl>>
       IN IF key \in seen THEN dedupLoopOneKey(posts, k + 1, seen, kept)
          ELSE dedupLoopOneKey(posts, k + 1, seen \cup {key}, Append(kept, p))

dedupOneKey(posts) == dedupLoopOneKey(posts, 1, {}, <<>>)

RECURSIVE dedupLoop(_, _, _, _, _)
dedupLoop(posts, k, seenUrls, seenText, kept) ==
  IF k > Len(posts) THEN kept
  ELSE LET p == posts[k]
           textKey == sliceTo(p.postText, 60)
       IN IF textKey \in seenText
          THEN dedupLoop(posts, k + 1, seenUrls, seenText, kept)
          ELSE IF ~ falsy(p.postUrl) /\ p.postUrl \in seenUrls
          THEN dedupLoop(posts, k + 1, seenUrls, seenText \cup {textKey}, kept)
          ELSE dedupLoop(posts, k + 1,
                         IF falsy(p.postUrl) THEN seenUrls ELSE seenUrls \cup {p.postUrl},
                         seenText \cup {textKey}, Append(kept, p))

dedup(posts) == dedupLoop(posts, 1, {}, {}, <<>>)

\* ------------------------------------------------------------------------
\*  Input data: the lines, elements, anchors and pages the model is run on
\* ------------------------------------------------------------------------

nameAnn ==
  <<"A","n","n"," ","L","e","e">>

nameBob ==
  <<"B","o","b"," ","R","a","y">>

nameGus ==
  <<"G","u","s"," ","P","o","e">>

nameDee ==
  <<"D","e","e"," ","F","o","x">>

hlFounder ==
  <<"F","o","u","n","d","e","r"," ","a","t"," ","Z","e","d">>

hlSenior ==
  <<"S","e","n","i","o","r"," ","d","e","v"," ","a","t"," ","Z","e","d">>

hlNone ==
  <<"W","o","r","k","s"," ","a","t"," ","Z","e","d">>

hlManager ==
  <<"P","r","o","d","u","c","t"," ","M","a","n","a","g","e","r"," ","a","t"," ","Z","e","d">>

hlDirector ==
  <<"D","i","r","e","c","t","o","r"," ","a","t"," ","Z","e","d">>

hlPrincipal ==
  <<"P","r","i","n","c","i","p","a","l"," ","a","t"," ","Z","e","d">>

hlLong ==
  <<"W","o","r","k","s"," ","a","t"," ","Z","e","d"," ","Z","e","d","z","z","z","z","z","z","z",
    "z","z","z","z"," ","Z","e","d","z","z","z","z","z","z","z","z","z","z","z"," ","Z","e","d",
    "z","z","z","z","z","z","z","z","z","z","z"," ","Z","e","d","z","z","z","z","z","z","z","z",
    "z","z","z">>

bodyHigh ==
  <<"W","e"," ","s","t","a","r","t","e","d"," ","a"," ","s","t","a","r","t","u","p"," ","a","n",
    "d"," ","b","u","i","l","t"," ","a"," ","p","r","o","d","u","c","t"," ","w","i","t","h"," ",
    "a"," ","s","m","a","l","l"," ","e","n","g","i","n","e","e","r","i","n","g"," ","t","e","a",
    "m"," ","t","h","e","n"," ","s","h","i","p","p","e","d"," ","i","t"," ","a","n","d"," ","l",
    "e","a","r","n","e","d"," ","a"," ","l","e","s","s","o","n"," ","a","b","o","u","t"," ","b",
    "a","c","k","e","n","d"," ","a","r","c","h","i","t","e","c","t","u","r","e"," ","a","n","d",
    " ","d","e","v","o","p","s"," ","a","u","t","o","m","a","t","i","o","n"," ","z","z"," ","z",
    "z"," ","z","z"," ","z","z">>

bodyGood ==
  <<"O","u","r"," ","p","r","o","d","u","c","t"," ","t","e","a","m"," ","m","a","d","e"," ","a",
    " ","d","e","c","i","s","i","o","n"," ","a","b","o","u","t"," ","s","o","f","t","w","a","r",
    "e"," ","d","e","s","i","g","n"," ","a","n","d"," ","g","r","o","w","t","h"," ","s","t","r",
    "a","t","e","g","y"," ","f","o","r"," ","t","h","e"," ","b","a","c","k","e","n","d"," ","z",
    "z"," ","z","z"," ","z","z"," ","z","z"," ","z","z"," ","z","z"," ","z","z"," ","z","z"," ",
    "z","z"," ","z","z"," ","z","z"," ","z","z"," ","z","z">>

bodyMid ==
  <<"T","h","i","s"," ","q","u","a","r","t","e","r"," ","o","u","r"," ","p","r","o","d","u","c",
    "t"," ","t","e","a","m"," ","m","a","d","e"," ","a"," ","d","e","c","i","s","i","o","n"," ",
    "a","b","o","u","t"," ","s","o","f","t","w","a","r","e"," ","d","e","s","i","g","n"," ","a",
    "n","d"," ","g","r","o","w","t","h"," ","s","t","r","a","t","e","g","y"," ","z","z"," ","z",
    "z"," ","z","z"," ","z","z"," ","z","z"," ","z","z"," ","z","z"," ","z","z"," ","z","z"," ",
    "z","z"," ","z","z"," ","z","z"," ","z","z"," ","z","z">>

bodyGrief ==
  <<"M","y"," ","m","e","n","t","o","r"," ","p","a","s","s","e","d"," ","a","w","a","y"," ","a",
    "n","d"," ","w","e"," ","s","t","a","r","t","e","d"," ","a"," ","s","t","a","r","t","u","p",
    " ","a","n","d"," ","b","u","i","l","t"," ","a"," ","p","r","o","d","u","c","t"," ","w","i",
    "t","h"," ","a"," ","s","m","a","l","l"," ","e","n","g","i","n","e","e","r","i","n","g"," ",
    "t","e","a","m"," ","t","h","e","n"," ","s","h","i","p","p","e","d"," ","i","t"," ","a","n",
    "d"," ","l","e","a","r","n","e","d"," ","a"," ","l","e","s","s","o","n"," ","a","b","o","u",
    "t"," ","b","a","c","k","e","n","d"," ","a","r","c","h","i","t","e","c","t","u","r","e"," ",
    "z","z"," ","z","z"," ","z","z">>

bodyShort ==
  <<"T","i","n","y"," ","n","o","t","e"," ","a","b","o","u","t"," ","n","o","t","h","i","n","g",
    " ","z","z"," ","z","z"," ","z","z"," ","z","z"," ","z","z"," ","z","z"," ","z","z"," ","z",
    "z"," ","z","z"," ","z","z"," ","z","z"," ","z","z"," ","z","z"," ","z","z"," ","z","z"," ",
    "z","z"," ","z","z">>

elAnn ==
  [lines |-> <<nameAnn, hlFounder, bodyGood>>,
   reactionMatch |-> <<"1","2","0">>, commentMatch |-> <<"1","2">>,
   components |-> {}, comments |-> <<>>, subDescription |-> <<>>]

elBob ==
  [lines |-> <<nameBob, hlSenior, bodyMid>>,
   reactionMatch |-> <<"1","2","0">>, commentMatch |-> <<"1","2">>,
   components |-> {}, comments |-> <<>>, subDescription |-> <<>>]

elDee ==
  [lines |-> <<nameDee, hlFounder, bodyHigh>>,
   reactionMatch |-> <<"1",",","2","0","0">>, commentMatch |-> <<"6","0">>,
   components |-> {"image"}, comments |-> <<>>, subDescription |-> <<>>]

elGus ==
  [lines |-> <<nameGus, hlFounder, bodyGrief>>,
   reactionMatch |-> <<"1","2","0">>, commentMatch |-> <<"1","2">>,
   components |-> {}, comments |-> <<>>, subDescription |-> <<>>]

elTieA ==
  [lines |-> <<nameBob, hlManager, bodyMid>>,
   reactionMatch |-> <<"1","2","0">>, commentMatch |-> <<"1","2">>,
   components |-> {}, comments |-> <<>>, subDescription |-> <<>>]

elTieB ==
  [lines |-> <<nameAnn, hlFounder, bodyGood>>,
   reactionMatch |-> <<"3","0">>, commentMatch |-> <<"3">>,
   components |-> {}, comments |-> <<>>, subDescription |-> <<>>]

elShort ==
  [lines |-> <<nameBob, hlLong, bodyShort>>,
   reactionMatch |-> <<"8">>, commentMatch |-> <<>>,
   components |-> {}, comments |-> <<>>, subDescription |-> <<>>]

elDup ==
  [lines |-> <<nameDee, hlSenior, bodyGood>>,
   reactionMatch |-> <<"1",".","2","K">>, commentMatch |-> <<"6","0">>,
   components |-> {}, comments |-> <<>>, subDescription |-> <<>>]

elTiny ==
  [lines |-> <<nameAnn, hlNone>>,
   reactionMatch |-> <<>>, commentMatch |-> <<>>,
   components |-> {}, comments |-> <<>>, subDescription |-> <<>>]

aAnn ==
  [href |-> <<"/","p","o","s","t","s","/","a","n","n","-","1","?","u","t","m","=","1">>,
   ancestors |-> <<elTiny, elAnn>>]

aAnn2 ==
  [href |-> <<"h","t","t","p","s",":","/","/","w","w","w",".","l","i","n","k","e","d","i","n",".","c","o","m","/","p","o","s","t","s","/","a","n","n","-","1">>,
   ancestors |-> <<elBob>>]

aBob ==
  [href |-> <<"/","f","e","e","d","/","u","p","d","a","t","e","/","u","r","n",":","l","i",":","a","c","t","i","v","i","t","y",":","7","0","0","2","/">>,
   ancestors |-> <<elBob>>]

aGus ==
  [href |-> <<"/","p","o","s","t","s","/","g","u","s","-","1">>,
   ancestors |-> <<elGus>>]

aDee ==
  [href |-> <<"/","p","o","s","t","s","/","d","e","e","-","1">>,
   ancestors |-> <<elDee>>]

aDeeCo ==
  [href |-> <<"/","c","o","m","p","a","n","y","/","z","e","d","/","p","o","s","t","s","/">>,
   ancestors |-> <<elDee>>]

aDup ==
  [href |-> <<"/","p","o","s","t","s","/","d","e","e","-","2">>,
   ancestors |-> <<elDup>>]

aTieA ==
  [href |-> <<"/","p","o","s","t","s","/","b","o","b","-","2">>,
   ancestors |-> <<elTieA>>]

aTieB ==
  [href |-> <<"/","p","o","s","t","s","/","a","n","n","-","2">>,
   ancestors |-> <<elTieB>>]

aShort ==
  [href |-> <<"/","p","o","s","t","s","/","b","o","b","-","3">>,
   ancestors |-> <<elShort>>]

aFeed ==
  [href |-> <<"/","f","e","e","d","/">>,
   ancestors |-> <<elAnn>>]

uDee == [urn |-> <<"u","r","n",":","l","i",":","a","c","t","i","v","i","t","y",":","7","0","0","1">>, el |-> elDee]

uBob == [urn |-> <<"u","r","n",":","l","i",":","a","c","t","i","v","i","t","y",":","7","0","0","2">>, el |-> elBob]

uShare == [urn |-> <<"u","r","n",":","l","i",":","s","h","a","r","e",":","5">>, el |-> elAnn]

uAnn == [urn |-> <<"u","r","n",":","l","i",":","a","c","t","i","v","i","t","y",":","7","0","0","3">>, el |-> elAnn]

Pages ==
  << \* twoTier
     [anchors |-> <<aAnn, aBob>>, urnElems |-> <<>>,
      body |-> <<>>],
     \* griefOnly
     [anchors |-> <<aGus>>, urnElems |-> <<>>,
      body |-> <<elGus.lines, elDee.lines, elBob.lines, elAnn.lines>>],
     \* griefMix
     [anchors |-> <<aGus, aDee, aBob>>, urnElems |-> <<>>,
      body |-> <<>>],
     \* urnOnly
     [anchors |-> <<aDeeCo, aFeed>>, urnElems |-> <<uShare, uDee, uBob, uDee>>,
      body |-> <<elDee.lines, elBob.lines, elAnn.lines, elGus.lines>>],
     \* bodyOnly
     [anchors |-> <<>>, urnElems |-> <<>>,
      body |-> <<elDee.lines, elShort.lines, elBob.lines, elDee.lines, elAnn.lines>>],
     \* empty
     [anchors |-> <<>>, urnElems |-> <<>>,
      body |-> <<elTiny.lines>>],
     \* tie
     [anchors |-> <<aTieA, aTieB>>, urnElems |-> <<>>,
      body |-> <<>>],
     \* dup
     [anchors |-> <<aAnn, aDup, aAnn2, aBob>>, urnElems |-> <<uAnn, uBob>>,
      body |-> <<>>],
     \* crowd
     [anchors |-> <<aAnn, aBob, aDee>>, urnElems |-> <<>>,
      body |-> <<>>],
     \* short
     [anchors |-> <<aShort, aDee>>, urnElems |-> <<uDee>>,
      body |-> <<elShort.lines, elDee.lines, elBob.lines, elAnn.lines, elGus.lines>>] >>

\* ------------------------------------------------------------------------
\*  feed.js : findOneInterestingPost, the scoring loop and the selection
\* ------------------------------------------------------------------------

\* score >= thresholds[thresholds.length - 1] (false when the list is empty)
meetsMinimum(score, th) == Len(th) > 0 /\ score >= th[Len(th)]

\* compositeScore as the scoring loop calls it for posts[i] (i is 0-based)
scoreAt(posts, i) ==
  LET post == posts[i + 1]
      eng == parseEngagement(post.cardText)
  IN compositeScore([postText |-> post.postText,
                     authorHeadline |-> post.authorHeadline,
                     reactionCount |-> eng.reactionCount,
                     commentCount |-> eng.commentCount,
                     positionIndex |-> i,
                     totalPosts |-> Len(posts)])

\* Two faulty versions of skipReason: one lets a post without URL through, the
\* other lacks the author cooldown
skipReasonWithoutUrlCheck(post, cu, ra) ==
  LET skipped == shouldSkip(post.authorName, post.authorHeadline, post.postText)
  IN IF post.postUrl \in cu THEN "Already commented"
     ELSE IF skipped.skip THEN skipped.reason
     ELSE IF toLowerCase(post.authorName) \in ra THEN "Author cooldown (7d)"
     ELSE ""

skipReasonWithoutCooldown(post, cu, ra) ==
  LET skipped == shouldSkip(post.authorName, post.authorHeadline, post.postText)
  IN IF falsy(post.postUrl) THEN "No URL"
     ELSE IF post.postUrl \in cu THEN "Already commented"
     ELSE IF skipped.skip THEN skipped.reason
     ELSE ""

\* The checks that make the loop `continue` before it scores posts[i]: the reason
\* logged, "" when the post goes on to be scored
skipReason(post, cu, ra) ==
  LET skipped == shouldSkip(post.authorName, post.authorHeadline, post.postText)
  IN IF falsy(post.postUrl) THEN "No URL"
     ELSE IF post.postUrl \in cu THEN "Already commented"
     ELSE IF skipped.skip THEN skipped.reason
     ELSE IF toLowerCase(post.authorName) \in ra THEN "Author cooldown (7d)"
     ELSE ""

\* The loop over the deduplicated posts.  acc.candidates is the candidates array,
\* acc.log has one entry per post: the reason it was skipped ("" when it was scored)
\* and its score (-1 when it was skipped).
RECURSIVE scoreLoop(_, _, _, _, _, _)
scoreLoop(posts, i, cu, ra, th, acc) ==
  IF i >= Len(posts) THEN acc
  ELSE LET post == posts[i + 1]
           reason == skipReason(post, cu, ra)
           eng == parseEngagement(post.cardText)
           scored == scoreAt(posts, i)
           note(score) == Append(acc.log, [reason |-> reason, score |-> score])
       IN IF reason # ""
          THEN scoreLoop(posts, i + 1, cu, ra, th, [acc EXCEPT !.log = note(-1)])
          ELSE IF meetsMinimum(scored.total, th)
          THEN scoreLoop(posts, i + 1, cu, ra, th,
                         [candidates |-> Append(acc.candidates,
                                                post @@ [reactionCount |-> eng.reactionCount,
                                                         commentCount |-> eng.commentCount,
                                                         compositeScore |-> scored.total,
                                                         breakdown |-> scored.breakdown]),
                          log |-> note(scored.total)])
          ELSE scoreLoop(posts, i + 1, cu, ra, th, [acc EXCEPT !.log = note(scored.total)])

\* a faulty choice of the active threshold: always the default minimum
pickThresholdDefault(candidates, th, k) == th[Len(th)]

\* the first threshold some candidate reaches, the last threshold by default
RECURSIVE pickThreshold(_, _, _)
pickThreshold(candidates, th, k) ==
  IF k > Len(th) THEN th[Len(th)]
  ELSE IF \E c \in 1..Len(candidates) : candidates[c].compositeScore >= th[k] THEN th[k]
  ELSE pickThreshold(candidates, th, k + 1)

\* a faulty sort that puts a post before the earlier posts of equal score
RECURSIVE insertDescendingUnstable(_, _)
insertDescendingUnstable(sorted, c) ==
  IF Len(sorted) = 0 THEN <<c>>
  ELSE IF sorted[1].compositeScore > c.compositeScore
  THEN <<sorted[1]>> \o insertDescendingUnstable(Tail(sorted), c)
  ELSE <<c>> \o sorted

\* Array.prototype.sort((a, b) => b.compositeScore - a.compositeScore): a stable sort
RECURSIVE insertDescending(_, _)
insertDescending(sorted, c) ==
  IF Len(sorted) = 0 THEN <<c>>
  ELSE IF sorted[1].compositeScore >= c.compositeScore
  THEN <<sorted[1]>> \o insertDescending(Tail(sorted), c)
  ELSE <<c>> \o sorted

RECURSIVE sortDescending(_)
sortDescending(cs) ==
  IF Len(cs) = 0 THEN <<>>
  ELSE insertDescending(sortDescending(SubSeq(cs, 1, Len(cs) - 1)), cs[Len(cs)])

\* the winner among the candidates, as a list of one element
selectWinner(candidates, activeThreshold) ==
  LET validCandidates == SelectSeq(candidates, LAMBDA c : c.compositeScore >= activeThreshold)
  IN <<sortDescending(validCandidates)[1]>>

\* ------------------------------------------------------------------------
\*  The state machine: one call of findOneInterestingPost or getFeedPostsBatch
\* ------------------------------------------------------------------------

VARIABLES
  op,               \* "find" | "batch" | "dedup" : the function being called
  pageId,           \* the page the call runs on (index into Pages)
  commentedUrls,    \* argument commentedUrls
  recentAuthors,    \* argument recentAuthors
  thresholds,       \* argument thresholds
  pc,               \* "start" | "cascade" | "done" | "threw"
  nextStrategy,     \* index of the strategy the for loop tries next (4: loop left)
  invoked,          \* the strategies invoked so far, in order
  outcomes,         \* the outcome of each invocation: "threw" | "empty" | "found"
  found,            \* the list returned by the latest strategy invocation
  posts,            \* local variable posts
  candidates,       \* local variable candidates
  activeThreshold,  \* local variable activeThreshold (-1 while unset)
  log,              \* one entry per post the scoring loop looked at
  result,           \* the returned value: <<>> for null, <<winner>> or the batch
  xs, ys, zs,       \* dedup called alone: its argument, dedup(xs), dedup(dedup(xs))
  call,             \* a function of filters.js or the parser called alone: [fn, ...arguments]
  returned,         \* the value that call returned (<<>> before it returns)
  bot,              \* the state of main() of bot.js
  recentStyleIds,   \* commentStyles.js: the style memory of the process
  picked,           \* the ids pickRandomStyle has returned, in order
  hunt,             \* the continuous engagement loop of main: its locals and position
  scrape            \* scrapeFeedPosts: its locals, the responses in flight, its position

vars == <<op, pageId, commentedUrls, recentAuthors, thresholds, pc, nextStrategy, invoked,
          outcomes, found, posts, candidates, activeThreshold, log, result, xs, ys, zs,
          call, returned, bot, recentStyleIds, picked, hunt, scrape>>

urlAnn1 == <<"h","t","t","p","s",":","/","/","w","w","w",".","l","i","n","k","e","d","i","n",".","c","o","m","/","p","o","s","t","s","/","a","n","n","-","1">>

urlDee1 == <<"h","t","t","p","s",":","/","/","w","w","w",".","l","i","n","k","e","d","i","n",".","c","o","m","/","p","o","s","t","s","/","d","e","e","-","1">>

urlBob2 == <<"h","t","t","p","s",":","/","/","w","w","w",".","l","i","n","k","e","d","i","n",".","c","o","m","/","p","o","s","t","s","/","b","o","b","-","2">>

urlAct7001 == <<"h","t","t","p","s",":","/","/","w","w","w",".","l","i","n","k","e","d","i","n",".","c","o","m","/","f","e","e","d","/","u","p","d","a","t","e","/","u","r","n",":","l","i",":","a","c","t","i","v","i","t","y",":","7","0","0","1","/">>

T806 == <<80, 70, 60>>

\* the arguments <<commentedUrls, recentAuthors, thresholds>> of the calls
FindArguments ==
  { <<{}, {}, T806>>, <<{}, {}, <<60>>>>, <<{}, {}, <<95, 90>>>>, <<{}, {}, <<>>>>,
    <<{urlAnn1}, {}, T806>>, <<{urlDee1, urlBob2, urlAct7001}, {}, T806>>,
    <<{}, {<<"b","o","b"," ","r","a","y">>}, T806>>, <<{urlAnn1}, {<<"b","o","b"," ","r","a","y">>}, <<60>>>> }

strategyNames == <<"Link-walk (/posts/ + /feed/update/)", "data-urn walk", "body.innerText parse">>

\* no function called alone, no bot run
NoCall == call = <<>> /\ returned = <<>>

NoBot == bot = <<>>

\* the variables of the modules that a call of feed.js, filters.js or main() of
\* bot.js does not touch, and their values when those modules are not run
elsewhere == <<recentStyleIds, picked, hunt, scrape>>

NoElsewhere == recentStyleIds = <<>> /\ picked = <<>> /\ hunt = <<>> /\ scrape = <<>>

Idle ==
  /\ pc = "start" /\ nextStrategy = 1 /\ invoked = <<>> /\ outcomes = <<>>
  /\ found = <<>> /\ posts = <<>> /\ candidates = <<>> /\ activeThreshold = -1
  /\ log = <<>> /\ result = <<>>

Init ==
  /\ Idle
  /\ xs = <<>> /\ ys = <<>> /\ zs = <<>>
  /\ NoCall /\ NoBot /\ NoElsewhere
  /\ pageId \in 1..Len(Pages)
  /\ \/ /\ op = "find"
        /\ \E a \in FindArguments :
             commentedUrls = a[1] /\ recentAuthors = a[2] /\ thresholds = a[3]
     \/ /\ op = "batch"
        /\ commentedUrls = {} /\ recentAuthors = {} /\ thresholds = <<>>

args == <<op, pageId, commentedUrls, recentAuthors, thresholds, xs, ys, zs, call, returned, bot,
          elsewhere>>

\* await ensureOnFeed(page); await scrollFeed(page, ...): navigation either completes
\* or rejects, and a rejection leaves the function
Navigate ==
  /\ pc = "start" /\ op \in {"find", "batch"}
  /\ pc' = "cascade"
  /\ UNCHANGED <<args, nextStrategy, invoked, outcomes, found, posts, candidates,
                 activeThreshold, log, result>>

NavigateThrows ==
  /\ pc = "start" /\ op \in {"find", "batch"}
  /\ pc' = "threw"
  /\ UNCHANGED <<args, nextStrategy, invoked, outcomes, found, posts, candidates,
                 activeThreshold, log, result>>

\* one iteration of the for loop over strategies: try { found = await fn(); ... }
strategyReturns(k, list) ==
  /\ pc = "cascade" /\ nextStrategy = k
  /\ invoked' = Append(invoked, strategyNames[k])
  /\ found' = list
  /\ outcomes' = Append(outcomes, IF Len(list) > 0 THEN "found" ELSE "empty")
  /\ IF op = "find"
     THEN /\ posts' = IF Len(list) > 0 THEN list ELSE posts
          /\ nextStrategy' = IF Len(list) > 0 THEN 4 ELSE k + 1
     ELSE /\ posts' = IF Len(list) > 0 THEN posts \o list ELSE posts
          /\ nextStrategy' = k + 1
  /\ UNCHANGED <<args, pc, candidates, activeThreshold, log, result>>

\* a faulty iteration without the try / catch: the rejection leaves the function
strategyRethrows(k) ==
  /\ pc = "cascade" /\ nextStrategy = k
  /\ invoked' = Append(invoked, strategyNames[k])
  /\ found' = <<>>
  /\ outcomes' = Append(outcomes, "threw")
  /\ pc' = "threw"
  /\ UNCHANGED <<args, nextStrategy, posts, candidates, activeThreshold, log, result>>

\* ... catch (e) { }: the strategy's promise rejects
strategyThrows(k) ==
  /\ pc = "cascade" /\ nextStrategy = k
  /\ invoked' = Append(invoked, strategyNames[k])
  /\ found' = <<>>
  /\ outcomes' = Append(outcomes, "threw")
  /\ nextStrategy' = k + 1
  /\ UNCHANGED <<args, pc, posts, candidates, activeThreshold, log, result>>

TryLinkWalk == strategyReturns(1, collectByLinkWalk(Pages[pageId]))

LinkWalkThrows == strategyThrows(1)

TryDataUrn == strategyReturns(2, collectByDataUrn(Pages[pageId]))

DataUrnThrows == strategyThrows(2)

TryBodyText == strategyReturns(3, collectByBodyText(Pages[pageId]))

BodyTextThrows == strategyThrows(3)

\* findOneInterestingPost after the cascade: the early return, dedup, the scoring
\* loop, the active threshold and the winner
FinishFind ==
  /\ pc = "cascade" /\ nextStrategy = 4 /\ op = "find"
  /\ pc' = "done"
  /\ IF Len(posts) = 0
     THEN /\ result' = <<>>
          /\ UNCHANGED <<posts, candidates, activeThreshold, log>>
     ELSE LET unique == dedup(posts)
              acc == scoreLoop(unique, 0, commentedUrls, recentAuthors, thresholds,
                               [candidates |-> <<>>, log |-> <<>>])
              active == pickThreshold(acc.candidates, thresholds, 1)
          IN /\ posts' = unique
             /\ candidates' = acc.candidates
             /\ log' = acc.log
             /\ IF Len(acc.candidates) = 0
                THEN result' = <<>> /\ activeThreshold' = -1
                ELSE result' = selectWinner(acc.candidates, active) /\ activeThreshold' = active
  /\ UNCHANGED <<args, nextStrategy, invoked, outcomes, found>>

\* getFeedPostsBatch after the loop: return dedup(posts)
FinishBatch ==
  /\ pc = "cascade" /\ nextStrategy = 4 /\ op = "batch"
  /\ pc' = "done"
  /\ result' = dedup(posts)
  /\ UNCHANGED <<args, nextStrategy, invoked, outcomes, found, posts, candidates,
                 activeThreshold, log>>

Next ==
  \/ Navigate \/ NavigateThrows
  \/ TryLinkWalk \/ LinkWalkThrows
  \/ TryDataUrn \/ DataUrnThrows
  \/ TryBodyText \/ BodyTextThrows
  \/ FinishFind \/ FinishBatch

Spec == Init /\ [][Next]_vars

\* ------------------------------------------------------------------------
\*  dedup called on its own, on every list of at most MaxLen posts of a pool
\* ------------------------------------------------------------------------

MaxLen == 3

textQueue == <<"W","e"," ","m","o","v","e","d"," ","o","u","r"," ","b","i","l","l","i","n","g"," ","p","i","p","e","l","i","n","e"," ","t","o"," ","a","n"," ","e","v","e","n","t"," ","q","u","e","u","e"," ","l","a","s","t"," ","s","p","r","i","n","g",","," ","a","n","d"," ","r","e","t","r","i","e","s"," ","b","e","c","a","m","e"," ","b","o","r","i","n","g",".">>

\* the same first 60 characters as textQueue, another ending
textQueueRolledBack == <<"W","e"," ","m","o","v","e","d"," ","o","u","r"," ","b","i","l","l","i","n","g"," ","p","i","p","e","l","i","n","e"," ","t","o"," ","a","n"," ","e","v","e","n","t"," ","q","u","e","u","e"," ","l","a","s","t"," ","s","p","r","i","n","g",","," ","t","h","e","n"," ","r","o","l","l","e","d"," ","i","t"," ","b","a","c","k"," ","a"," ","w","e","e","k"," ","l","a","t","e","r",".">>

textHiring == <<"T","h","r","e","e"," ","i","n","t","e","r","v","i","e","w"," ","q","u","e","s","t","i","o","n","s"," ","t","e","l","l"," ","m","e"," ","m","o","r","e"," ","a","b","o","u","t"," ","a","n"," ","e","n","g","i","n","e","e","r"," ","t","h","a","n"," ","a","n","y"," ","r","e","s","u","m","e"," ","d","o","e","s",".">>

\* fewer than 60 characters
textNote == <<"S","h","o","r","t"," ","n","o","t","e"," ","o","n"," ","c","a","c","h","i","n","g",".">>

urlQueue == <<"h","t","t","p","s",":","/","/","w","w","w",".","l","i","n","k","e","d","i","n",".","c","o","m","/","p","o","s","t","s","/","a","n","n","-","q","u","e","u","e">>

urlShare == <<"h","t","t","p","s",":","/","/","w","w","w",".","l","i","n","k","e","d","i","n",".","c","o","m","/","p","o","s","t","s","/","b","o","b","-","s","h","a","r","e">>

urlHiring == <<"h","t","t","p","s",":","/","/","w","w","w",".","l","i","n","k","e","d","i","n",".","c","o","m","/","p","o","s","t","s","/","d","e","e","-","h","i","r","i","n","g">>

DedupPool ==
  { [postUrl |-> urlQueue, postText |-> textQueue, authorName |-> nameAnn],
    [postUrl |-> urlShare, postText |-> textQueueRolledBack, authorName |-> nameBob],
    [postUrl |-> urlQueue, postText |-> textHiring, authorName |-> nameAnn],
    [postUrl |-> urlHiring, postText |-> textHiring, authorName |-> nameDee],
    [postUrl |-> Null, postText |-> textQueue, authorName |-> nameAnn],
    [postUrl |-> Null, postText |-> textNote, authorName |-> nameGus] }

\* the lists of exactly n posts of the pool
RECURSIVE listsOfLength(_)
listsOfLength(n) ==
  IF n = 0 THEN {<<>>}
  ELSE {Append(l, p) : l \in listsOfLength(n - 1), p \in DedupPool}

InitDedup ==
  /\ Idle
  /\ op = "dedup" /\ pageId = 0
  /\ commentedUrls = {} /\ recentAuthors = {} /\ thresholds = <<>>
  /\ \E n \in 0..MaxLen : xs \in listsOfLength(n)
  /\ ys = <<>> /\ zs = <<>>
  /\ NoCall /\ NoBot /\ NoElsewhere

\* ys = dedup(xs)
CallDedup ==
  /\ op = "dedup" /\ pc = "start"
  /\ ys' = dedup(xs)
  /\ pc' = "once"
  /\ UNCHANGED <<op, pageId, commentedUrls, recentAuthors, thresholds, nextStrategy,
                 invoked, outcomes, found, posts, candidates, activeThreshold, log,
                 result, xs, zs, call, returned, bot, elsewhere>>

\* zs = dedup(ys)
CallDedupAgain ==
  /\ op = "dedup" /\ pc = "once"
  /\ zs' = dedup(ys)
  /\ pc' = "done"
  /\ UNCHANGED <<op, pageId, commentedUrls, recentAuthors, thresholds, nextStrategy,
                 invoked, outcomes, found, posts, candidates, activeThreshold, log,
                 result, xs, ys, call, returned, bot, elsewhere>>

NextDedup == CallDedup \/ CallDedupAgain

SpecDedup == InitDedup /\ [][NextDedup]_vars

\* ------------------------------------------------------------------------
\*  The functions of filters.js and the parser, each called alone:
\*  call is the call ([fn, arguments]), returned the sequence of the values
\*  it has returned (empty while the call is pending).
\* ------------------------------------------------------------------------

\* a text of n characters without any signal
pad(n) == [i \in 1..n |-> "x"]

skipNames == {<<"A","n","n"," ","L","e","e">>, <<"B","o","b"," ","#","H","i","r","e","M","e">>}

skipHeadlines ==
  {<<>>, <<"C","T","O"," ","a","t"," ","A","c","m","e">>, <<"C","S"," ","S","t","u","d","e","n","t">>, <<"I","n","t","e","r","n",","," ","a","c","t","i","v","e","l","y"," ","s","e","e","k","i","n","g">>, <<"O","p","e","n"," ","t","o"," ","W","o","r","k">>}

\* the last three carry a signal behind the 400, 600 and 800 characters a rule reads
skipTexts ==
  {<<"S","h","i","p","p","e","d"," ","a"," ","n","e","w"," ","c","a","c","h","e"," ","l","a","y","e","r"," ","t","o","d","a","y",".">>,
   <<"N","o","w"," ","h","i","r","i","n","g"," ","i","n","t","e","r","n","s">>,
   <<"A","p","p","l","y"," ","n","o","w","."," ","W","e"," ","l","o","s","t"," ","a"," ","g","r","e","a","t"," ","m","e","n","t","o","r",".">>,
   <<"#","h","i","r","i","n","g"," ","a","f","t","e","r"," ","t","h","e"," ","f","u","n","e","r","a","l">>,
   <<"O","u","r"," ","b","o","o","t","c","a","m","p"," ","i","s"," ","i","n"," ","m","o","u","r","n","i","n","g">>,
   <<"L","o","o","k","i","n","g"," ","f","o","r"," ","w","o","r","k"," ","s","i","n","c","e"," ","t","h","e"," ","t","r","a","g","e","d","y",";"," ","s","e","n","d"," ","y","o","u","r"," ","C","V">>,
   pad(400) \o <<"o","p","e","n"," ","t","o"," ","w","o","r","k",","," ","w","e"," ","a","r","e"," ","h","i","r","i","n","g">>,
   pad(600) \o <<"p","a","s","s","e","d"," ","a","w","a","y",","," ","a","p","p","l","y"," ","h","e","r","e">>,
   pad(800) \o <<"j","o","b"," ","o","p","e","n","i","n","g">>}

ShouldSkipCalls ==
  {[fn |-> "shouldSkip", authorName |-> n, authorHeadline |-> h, postText |-> t] :
     n \in skipNames, h \in skipHeadlines, t \in skipTexts}

Pending(fn) == op = "calls" /\ call.fn = fn /\ returned = <<>>

CallShouldSkip ==
  /\ Pending("shouldSkip")
  /\ returned' = <<shouldSkip(call.authorName, call.authorHeadline, call.postText)>>
  /\ UNCHANGED <<op, pageId, commentedUrls, recentAuthors, thresholds, pc, nextStrategy,
                 invoked, outcomes, found, posts, candidates, activeThreshold, log,
                 result, xs, ys, zs, call, bot, elsewhere>>

\* ---- compositeScore ----------------------------------------------------

scoreTexts == {bodyShort, pad(99), pad(100), bodyHigh}

scoreHeadlines == {hlNone, hlFounder}

\* both sides of 5, of 50 and of 10000
scoreReactionCounts == {0, 4, 5, 50, 10000, 10001}

\* both sides of 5 and of 200
scoreCommentCounts == {0, 5, 6, 200, 201}

\* <<positionIndex, totalPosts>>
scorePositions == {<<0, 10>>, <<1, 4>>, <<12, 10>>}

scoreAges == {<<>>, <<"5","m"," ","*"," ","E","d","i","t","e","d">>}

commentShort == <<"N","i","c","e","!">>

commentLong == <<"W","e"," ","h","a","d"," ","t","h","e"," ","s","a","m","e"," ","o","u","t","a","g","e"," ","l","a","s","t"," ","s","p","r","i","n","g"," ","a","n","d"," ","f","i","x","e","d"," ","i","t"," ","b","y"," ","s","h","a","r","d","i","n","g"," ","t","h","e"," ","q","u","e","u","e",".">>

\* the fields the contextual modifiers read
scoreModifiers ==
  {[isConnection |-> FALSE, postFormat |-> "text", commentsData |-> <<>>,
    authorReplied |-> FALSE],
   [isConnection |-> TRUE, postFormat |-> "image", commentsData |-> <<commentShort>>,
    authorReplied |-> TRUE],
   [isConnection |-> FALSE, postFormat |-> "poll", commentsData |-> <<>>,
    authorReplied |-> FALSE],
   [isConnection |-> FALSE, postFormat |-> "video", commentsData |-> <<commentLong>>,
    authorReplied |-> FALSE]}

CompositeScoreCalls ==
  {[fn |-> "compositeScore",
    post |-> [postText |-> t, authorHeadline |-> h, reactionCount |-> r,
              commentCount |-> c, positionIndex |-> p[1], totalPosts |-> p[2],
              isConnection |-> m.isConnection, postFormat |-> m.postFormat,
              commentsData |-> m.commentsData, authorReplied |-> m.authorReplied,
              postAge |-> a]] :
     t \in scoreTexts, h \in scoreHeadlines, r \in scoreReactionCounts,
     c \in scoreCommentCounts, p \in scorePositions, m \in scoreModifiers, a \in scoreAges}

CallCompositeScore ==
  /\ Pending("compositeScore")
  /\ returned' = <<compositeScore(call.post)>>
  /\ UNCHANGED <<op, pageId, commentedUrls, recentAuthors, thresholds, pc, nextStrategy,
                 invoked, outcomes, found, posts, candidates, activeThreshold, log,
                 result, xs, ys, zs, call, bot, elsewhere>>

\* ---- calcSeniorityScore ------------------------------------------------

seniorityHeadlines ==
  {<<>>, hlNone, hlFounder, hlSenior, hlManager, hlDirector, hlPrincipal,
   <<"S","e","n","i","o","r"," ","D","i","r","e","c","t","o","r"," ","o","f"," ","E","n","g","i","n","e","e","r","i","n","g">>,
   <<"F","o","u","n","d","e","r"," ","&"," ","A","n","g","e","l"," ","I","n","v","e","s","t","o","r">>,
   <<"C","T","O",","," ","c","r","e","a","t","o","r"," ","a","n","d"," ","i","n","v","e","s","t","o","r">>,
   <<"C","r","e","a","t","o","r"," ","o","f"," ","a"," ","w","e","e","k","l","y"," ","n","e","w","s","l","e","t","t","e","r">>,
   <<"V","P"," ","S","a","l","e","s">>,
   <<"T","e","c","h"," ","L","e","a","d"," ","a","t"," ","Z","e","d">>,
   <<"S","r","."," ","S","t","a","f","f"," ","E","n","g","i","n","e","e","r">>,
   <<"H","e","a","d"," ","o","f"," ","P","r","o","d","u","c","t",","," ","e","x"," ","P","r","o","d","u","c","t"," ","M","a","n","a","g","e","r">>,
   <<"I","n","v","e","s","t","o","r">>}

CalcSeniorityScoreCalls ==
  {[fn |-> "calcSeniorityScore", authorHeadline |-> h] : h \in seniorityHeadlines}

CallCalcSeniorityScore ==
  /\ Pending("calcSeniorityScore")
  /\ returned' = <<calcSeniorityScore(call.authorHeadline)>>
  /\ UNCHANGED <<op, pageId, commentedUrls, recentAuthors, thresholds, pc, nextStrategy,
                 invoked, outcomes, found, posts, candidates, activeThreshold, log,
                 result, xs, ys, zs, call, bot, elsewhere>>

\* ---- calcCommentVisibilityScore ----------------------------------------

\* the largest comment count called with
MaxCommentCount == 250

CalcCommentVisibilityScoreCalls ==
  {[fn |-> "calcCommentVisibilityScore", commentCount |-> c] : c \in 0..MaxCommentCount}

CallCalcCommentVisibilityScore ==
  /\ Pending("calcCommentVisibilityScore")
  /\ returned' = <<calcCommentVisibilityScore(call.commentCount)>>
  /\ UNCHANGED <<op, pageId, commentedUrls, recentAuthors, thresholds, pc, nextStrategy,
                 invoked, outcomes, found, posts, candidates, activeThreshold, log,
                 result, xs, ys, zs, call, bot, elsewhere>>

\* ---- parseAuthorFromLines ----------------------------------------------

\* non-empty trimmed lines: some are names to one parser or to both, the others to none
parserLines ==
  {<<"A","n","n"," ","L","e","e">>,
   <<"U","n","k","n","o","w","n">>,
   <<"S","p","o","n","s","o","r","e","d">>,
   <<"F","o","l","l","o","w">>,
   <<"1","2",":","4","5"," ","-"," ","1",",","0","2","4">>,
   <<"7">>,
   <<"W","e"," ","m","o","v","e","d"," ","o","u","r"," ","w","h","o","l","e"," ","q","u","e","u","e"," ","t","o"," ","a"," ","n","e","w"," ","b","r","o","k","e","r"," ","l","a","s","t"," ","w","e","e","k">>,
   <<"s","e","e"," ","h","t","t","p","s",":","/","/","e","x","a","m","p","l","e",".","o","r","g","/","a">>,
   pad(81)}

\* the most lines a call is given
MaxLines == 3

\* more lines than the 15 the parser looks at: the name is the 16th
sixteenLines == [k \in 1..16 |-> IF k = 16 THEN <<"A","n","n"," ","L","e","e">> ELSE <<"1","2",":","4","5"," ","-"," ","1",",","0","2","4">>]

parserInputs ==
  {sixteenLines} \cup UNION {[1..n -> parserLines] : n \in 0..MaxLines}

ParseAuthorFromLinesCalls ==
  {[fn |-> f, lines |-> l] :
     f \in {"parseAuthorFromLines", "inPageParseAuthorFromLines"}, l \in parserInputs}

CallParseAuthorFromLines ==
  /\ Pending("parseAuthorFromLines")
  /\ returned' = <<parseAuthorFromLines(call.lines)>>
  /\ UNCHANGED <<op, pageId, commentedUrls, recentAuthors, thresholds, pc, nextStrategy,
                 invoked, outcomes, found, posts, candidates, activeThreshold, log,
                 result, xs, ys, zs, call, bot, elsewhere>>

CallInPageParseAuthorFromLines ==
  /\ Pending("inPageParseAuthorFromLines")
  /\ returned' = <<inPageParseAuthorFromLines(call.lines)>>
  /\ UNCHANGED <<op, pageId, commentedUrls, recentAuthors, thresholds, pc, nextStrategy,
                 invoked, outcomes, found, posts, candidates, activeThreshold, log,
                 result, xs, ys, zs, call, bot, elsewhere>>

InitCalls ==
  /\ op = "calls" /\ pageId = 0
  /\ commentedUrls = {} /\ recentAuthors = {} /\ thresholds = <<>>
  /\ Idle
  /\ xs = <<>> /\ ys = <<>> /\ zs = <<>>
  /\ NoBot /\ NoElsewhere
  /\ returned = <<>>
  /\ \/ call \in ShouldSkipCalls
     \/ call \in CompositeScoreCalls
     \/ call \in CalcSeniorityScoreCalls
     \/ call \in CalcCommentVisibilityScoreCalls
     \/ call \in ParseAuthorFromLinesCalls

NextCalls ==
  \/ CallShouldSkip
  \/ CallCompositeScore
  \/ CallCalcSeniorityScore
  \/ CallCalcCommentVisibilityScore
  \/ CallParseAuthorFromLines
  \/ CallInPageParseAuthorFromLines

SpecCalls == InitCalls /\ [][NextCalls]_vars

\* ------------------------------------------------------------------------
\*  bot.js : main().  bot is the state of one run from the quota check on:
\*  the local variables of main, and in succeeded the URLs for which
\*  postComment has returned true, in order.  A post is reduced to its postUrl
\*  and the scraper it came from.
\* ------------------------------------------------------------------------

\* the URLs the scrapers find
botUrls == {urlAnn1, urlBob2}

\* the largest daily cap (config.bot.maxCommentsPerRun)
MaxSlots == 2

\* the most comments already recorded for today
MaxToday == 3

\* the most real target profiles
MaxProfiles == 1

\* the most posts one scraper call returns
MaxScraped == 2

\* what one call of scrapeFeedPosts or scrapeProfilePosts can return: both drop a
\* URL they have seen before in the same call (seenUrls)
scraped(from) ==
  {s \in UNION {[1..n -> [postUrl : botUrls, from : {from}]] : n \in 0..MaxScraped} :
     \A i, j \in 1..Len(s) : s[i].postUrl = s[j].postUrl => i = j}

\* scorePostInterest: the scores it gives to a post it finds interesting
interestScores == {60, 80}

\* scoredPosts.sort((a, b) => b.interestScore - a.interestScore): a stable sort
RECURSIVE insertByInterest(_, _)
insertByInterest(sorted, p) ==
  IF Len(sorted) = 0 THEN <<p>>
  ELSE IF sorted[1].interestScore >= p.interestScore
  THEN <<sorted[1]>> \o insertByInterest(Tail(sorted), p)
  ELSE <<p>> \o sorted

RECURSIVE sortByInterest(_)
sortByInterest(ps) ==
  IF Len(ps) = 0 THEN <<>>
  ELSE insertByInterest(sortByInterest(SubSeq(ps, 1, Len(ps) - 1)), ps[Len(ps)])

notBot ==
  <<op, pageId, commentedUrls, recentAuthors, thresholds, pc, nextStrategy, invoked,
    outcomes, found, posts, candidates, activeThreshold, log, result, xs, ys, zs,
    call, returned, elsewhere>>

InitBot ==
  /\ op = "bot" /\ pageId = 0
  /\ commentedUrls = {} /\ recentAuthors = {} /\ thresholds = <<>>
  /\ Idle
  /\ xs = <<>> /\ ys = <<>> /\ zs = <<>>
  /\ NoCall /\ NoElsewhere
  /\ \E dailyCap \in 1..MaxSlots, todayCount \in 0..MaxToday,
        loaded \in SUBSET botUrls, profiles \in 0..MaxProfiles :
       bot = [at |-> "quota", dailyCap |-> dailyCap, todayCount |-> todayCount,
              slotsLeft |-> dailyCap - todayCount, session |-> FALSE, loaded |-> loaded,
              commentedPosts |-> loaded, realProfiles |-> profiles,
              allPosts |-> <<>>, newPosts |-> <<>>, scoredPosts |-> <<>>,
              i |-> 0, commentCount |-> 0, succeeded |-> <<>>, csv |-> <<>>, last |-> "none"]

\* step 3: no slot left today, main returns before it launches the browser
ReturnAtCap ==
  /\ bot.at = "quota" /\ bot.slotsLeft <= 0
  /\ bot' = [bot EXCEPT !.at = "done"]
  /\ UNCHANGED notBot

\* step 8 and what follows a scoring loop that has ended: the filter on
\* commentedPosts, evaluated once, and the returns on empty lists
deduplicated(b) ==
  LET newPosts == SelectSeq(b.allPosts, LAMBDA p : p.postUrl \notin b.commentedPosts)
  IN IF Len(b.allPosts) = 0 \/ Len(newPosts) = 0 THEN [b EXCEPT !.at = "done"]
     ELSE [b EXCEPT !.at = "score", !.newPosts = newPosts, !.i = 1]

\* steps 4 to 7: the home feed is always scraped
ScrapeFeed ==
  /\ bot.at = "quota" /\ bot.slotsLeft > 0
  /\ \E feedPosts \in scraped("feed") :
       LET b == [bot EXCEPT !.session = TRUE, !.allPosts = feedPosts]
       IN bot' = IF bot.realProfiles = 0 THEN deduplicated(b)
                 ELSE [b EXCEPT !.at = "profiles", !.i = 1]
  /\ UNCHANGED notBot

\* one round of the loop over the real target profiles
ScrapeProfile ==
  /\ bot.at = "profiles"
  /\ \E profilePosts \in scraped("profile") :
       LET b == [bot EXCEPT !.allPosts = bot.allPosts \o profilePosts]
       IN bot' = IF bot.i = bot.realProfiles THEN deduplicated(b)
                 ELSE [b EXCEPT !.i = bot.i + 1]
  /\ UNCHANGED notBot

\* after the last post is scored: the sort, and the return when nothing is interesting
scored(b) ==
  IF b.i < Len(b.newPosts) THEN [b EXCEPT !.i = b.i + 1]
  ELSE IF Len(b.scoredPosts) = 0 THEN [b EXCEPT !.at = "done"]
  ELSE [b EXCEPT !.at = "comment", !.scoredPosts = sortByInterest(b.scoredPosts), !.i = 1]

\* step 9: scorePostInterest finds the post interesting
ScoreInteresting ==
  /\ bot.at = "score"
  /\ \E score \in interestScores :
       LET post == bot.newPosts[bot.i]
           kept == [postUrl |-> post.postUrl, from |-> post.from, interestScore |-> score]
       IN bot' = scored([bot EXCEPT !.scoredPosts = Append(bot.scoredPosts, kept)])
  /\ UNCHANGED notBot

\* step 9: scorePostInterest finds it not interesting, or throws
ScoreNotInteresting ==
  /\ bot.at = "score"
  /\ bot' = scored(bot)
  /\ UNCHANGED notBot

\* the end of one round of the comment loop
nextPost(b) ==
  IF b.i < Len(b.scoredPosts) THEN [b EXCEPT !.i = b.i + 1] ELSE [b EXCEPT !.at = "done"]

\* step 10: the cap is reached, break
StopAtCap ==
  /\ bot.at = "comment" /\ bot.commentCount >= bot.slotsLeft
  /\ bot' = [bot EXCEPT !.at = "done", !.last = "cap reached"]
  /\ UNCHANGED notBot

\* a faulty round of the comment loop that does not look at the slots left
CommentPostedPastCap ==
  /\ bot.at = "comment"
  /\ LET post == bot.scoredPosts[bot.i]
     IN bot' = [bot EXCEPT !.commentedPosts = bot.commentedPosts \cup {post.postUrl},
                           !.commentCount = bot.commentCount + 1,
                           !.succeeded = Append(bot.succeeded, post.postUrl),
                           !.csv = Append(bot.csv, post.postUrl),
                           !.last = "posted",
                           !.i = IF bot.i < Len(bot.scoredPosts) THEN bot.i + 1 ELSE bot.i,
                           !.at = IF bot.i < Len(bot.scoredPosts) THEN "comment" ELSE "done"]
  /\ UNCHANGED notBot

\* step 10: postComment returns true
CommentPosted ==
  /\ bot.at = "comment" /\ bot.commentCount < bot.slotsLeft
  /\ LET post == bot.scoredPosts[bot.i]
     IN bot' = nextPost([bot EXCEPT !.commentedPosts = bot.commentedPosts \cup {post.postUrl},
                                    !.commentCount = bot.commentCount + 1,
                                    !.succeeded = Append(bot.succeeded, post.postUrl),
                                    !.csv = Append(bot.csv, post.postUrl),
                                    !.last = "posted"])
  /\ UNCHANGED notBot

\* step 10: postComment returns true and writeCommentedPost throws: the outer catch
\* of main ends the run before commentedPosts.add and commentCount++
CommentPostedNotWritten ==
  /\ bot.at = "comment" /\ bot.commentCount < bot.slotsLeft
  /\ LET post == bot.scoredPosts[bot.i]
     IN bot' = [bot EXCEPT !.succeeded = Append(bot.succeeded, post.postUrl),
                           !.at = "done", !.last = "unexpected error"]
  /\ UNCHANGED notBot

\* a faulty round that records the URL of a post the comment was not posted on
CommentNotPostedButRecorded ==
  /\ bot.at = "comment" /\ bot.commentCount < bot.slotsLeft
  /\ LET post == bot.scoredPosts[bot.i]
     IN bot' = nextPost([bot EXCEPT !.commentedPosts = bot.commentedPosts \cup {post.postUrl},
                                    !.last = "not posted"])
  /\ UNCHANGED notBot

\* step 10, the rounds that record nothing: generateComment throws (continue),
\* postComment returns false, postComment throws, or it throws for a closed page
\* and browser.newPage() succeeds
CommentNotPosted ==
  /\ bot.at = "comment" /\ bot.commentCount < bot.slotsLeft
  /\ bot' = nextPost([bot EXCEPT !.last = "not posted"])
  /\ UNCHANGED notBot

\* step 10: postComment throws for a closed page and browser.newPage() throws, break
BrowserGone ==
  /\ bot.at = "comment" /\ bot.commentCount < bot.slotsLeft
  /\ bot' = [bot EXCEPT !.at = "done", !.last = "browser gone"]
  /\ UNCHANGED notBot

NextBot ==
  \/ ReturnAtCap
  \/ ScrapeFeed
  \/ ScrapeProfile
  \/ ScoreInteresting
  \/ ScoreNotInteresting
  \/ StopAtCap
  \/ CommentPosted
  \/ CommentPostedNotWritten
  \/ CommentNotPosted
  \/ BrowserGone

SpecBot == InitBot /\ [][NextBot]_vars

\* ------------------------------------------------------------------------
\*  commentStyles.js : pickRandomStyle and the style memory
\* ------------------------------------------------------------------------

\* the ids of COMMENT_STYLES, in the order of the array
COMMENT_STYLES ==
  <<"experiential", "contrarian", "analytical", "question", "parallel", "builder">>

\* a faulty available that does not look at the memory
availableAll(recent) == COMMENT_STYLES

\* COMMENT_STYLES.filter((s) => !recentStyleIds.includes(s.id))
available(recent) ==
  SelectSeq(COMMENT_STYLES, LAMBDA id : \A k \in 1..Len(recent) : recent[k] # id)

stylePool(recent) == IF Len(available(recent)) > 0 THEN available(recent) ELSE COMMENT_STYLES

\* recentStyleIds.push(picked.id); if (recentStyleIds.length > 3) recentStyleIds.shift()
remembered(recent, id) ==
  LET pushed == Append(recent, id)
  IN IF Len(pushed) > 3 THEN Tail(pushed) ELSE pushed

\* the most calls of pickRandomStyle in the process
MaxPicks == 5

notStyles ==
  <<op, pageId, commentedUrls, recentAuthors, thresholds, pc, nextStrategy, invoked,
    outcomes, found, posts, candidates, activeThreshold, log, result, xs, ys, zs,
    call, returned, bot, hunt, scrape>>

\* the module is loaded: const recentStyleIds = []
InitStyles ==
  /\ op = "styles" /\ pageId = 0
  /\ commentedUrls = {} /\ recentAuthors = {} /\ thresholds = <<>>
  /\ Idle
  /\ xs = <<>> /\ ys = <<>> /\ zs = <<>>
  /\ NoCall /\ NoBot
  /\ recentStyleIds = <<>> /\ picked = <<>>
  /\ hunt = <<>> /\ scrape = <<>>

\* index is Math.floor(Math.random() * pool.length), 0-based
PickRandomStyle ==
  /\ op = "styles" /\ Len(picked) < MaxPicks
  /\ LET pool == stylePool(recentStyleIds)
     IN \E index \in 0..(Len(pool) - 1) :
          /\ recentStyleIds' = remembered(recentStyleIds, pool[index + 1])
          /\ picked' = Append(picked, pool[index + 1])
  /\ UNCHANGED notStyles

NextStyles ==
  \/ PickRandomStyle

SpecStyles == InitStyles /\ [][NextStyles]_vars

\* ------------------------------------------------------------------------
\*  bot.js, main with the continuous engagement loop
\*  (the listing of SELECT_INTERESTING_POST.md)
\* ------------------------------------------------------------------------

\* a card whose author line is Ann Lee's name in capitals
elAnnCaps ==
  [elDee EXCEPT !.lines = <<<<"A","N","N"," ","L","E","E">>, hlFounder, bodyHigh>>]

\* the posts the batches are made of
huntAnn1 == postOf(urlAnn1, elAnn)
huntAnn2 == postOf(urlQueue, elAnnCaps)
huntBob == postOf(urlBob2, elBob)
huntSameText == postOf(urlDee1, elDup)
huntGrief == postOf(urlShare, elGus)
huntNoUrl == postOf(Null, elTieA)

huntPosts == {huntAnn1, huntAnn2, huntBob, huntSameText, huntGrief, huntNoUrl}

\* the most batches of a run
MaxBatches == 2

\* what getFeedPostsBatch may return: up to two posts, no post twice
huntBatches ==
  {<<>>} \cup {<<p>> : p \in huntPosts}
         \cup {b \in huntPosts \X huntPosts : b[1] # b[2]}

\* config.bot.minInterestScore, its default
minInterestScore == 40

\* the largest config.bot.maxCommentsPerRun
MaxCommentsPerRun == 1

\* what readCommentedPosts and loadRecentAuthors return at step 2
huntLoaded ==
  {[commentedUrls |-> {}, recentAuthors |-> {}],
   [commentedUrls |-> {urlDee1}, recentAuthors |-> {<<"b","o","b"," ","r","a","y">>}]}

\* (post.authorName || '').toLowerCase()
authorKey(post) == toLowerCase(IF falsy(post.authorName) THEN <<>> ELSE post.authorName)

\* the tests of the for loop that `continue`, in their order, for the post at
\* 0-based index i of the batch; "" when the post is evaluated for a comment.
\* The sets are the ones at the time of the test.
passedOver(h, cu, ra) ==
  LET post == h.postsBatch[h.i + 1]
      textKey == sliceTo(post.postText, 60)
      eng == parseEngagement(post.cardText)
      rated == compositeScore([postText |-> post.postText,
                                authorHeadline |-> post.authorHeadline,
                                reactionCount |-> eng.reactionCount,
                                commentCount |-> eng.commentCount,
                                positionIndex |-> h.i,
                                totalPosts |-> Len(h.postsBatch),
                                isConnection |-> post.isConnection,
                                postFormat |-> post.postFormat,
                                commentsData |-> post.commentsData,
                                authorReplied |-> post.authorReplied,
                                postAge |-> post.postAge])
  IN IF falsy(post.postUrl) THEN "no url"
     ELSE IF post.postUrl \in h.runSeenUrls THEN "seen url"
     ELSE IF textKey \in h.runSeenTexts THEN "seen text"
     ELSE IF post.postUrl \in cu THEN "already commented"
     ELSE IF shouldSkip(post.authorName, post.authorHeadline, post.postText).skip THEN "filtered"
     ELSE IF authorKey(post) \in ra THEN "cooldown"
     ELSE IF ~ (rated.total >= minInterestScore) THEN "low score"
     ELSE ""

\* runSeenUrls.add and runSeenTexts.add, as far as the round gets
seen(h, why) ==
  LET post == h.postsBatch[h.i + 1]
      withUrl == h.runSeenUrls \cup {post.postUrl}
      withText == h.runSeenTexts \cup {sliceTo(post.postText, 60)}
  IN IF why = "no url" \/ why = "seen url" THEN h
     ELSE IF why = "seen text" THEN [h EXCEPT !.runSeenUrls = withUrl]
     ELSE [h EXCEPT !.runSeenUrls = withUrl, !.runSeenTexts = withText]

notHunt ==
  <<op, pageId, thresholds, pc, nextStrategy, invoked, outcomes, found, posts,
    candidates, activeThreshold, log, result, xs, ys, zs, call, returned, bot, scrape>>

\* step 2 has loaded the two sets, step 5 has set up the loop
InitHunt ==
  /\ op = "hunt" /\ pageId = 0 /\ thresholds = <<>>
  /\ Idle
  /\ xs = <<>> /\ ys = <<>> /\ zs = <<>>
  /\ NoCall /\ NoBot
  /\ recentStyleIds = <<>> /\ picked = <<>> /\ scrape = <<>>
  /\ \E loaded \in huntLoaded :
       commentedUrls = loaded.commentedUrls /\ recentAuthors = loaded.recentAuthors
  /\ \E maxCommentsPerRun \in 0..MaxCommentsPerRun :
       hunt = [at |-> "while",
               MAX_COMMENTS |-> IF maxCommentsPerRun = 0 THEN 3 ELSE maxCommentsPerRun,
               commentsMade |-> 0, runSeenUrls |-> {}, runSeenTexts |-> {},
               postsBatch |-> <<>>, i |-> 0, batches |-> 0,
               evaluated |-> <<>>, posted |-> <<>>, last |-> "none"]

\* while: getFeedPostsBatch returns; an empty batch continues the while loop
FetchBatch ==
  /\ op = "hunt" /\ hunt.at = "while"
  /\ hunt.commentsMade < hunt.MAX_COMMENTS /\ hunt.batches < MaxBatches
  /\ \E batch \in huntBatches :
       hunt' = [hunt EXCEPT !.at = IF Len(batch) = 0 THEN "while" ELSE "for",
                            !.postsBatch = batch, !.i = 0,
                            !.batches = hunt.batches + 1, !.last = "batch"]
  /\ UNCHANGED <<notHunt, commentedUrls, recentAuthors, recentStyleIds, picked>>

\* while: commentsMade < MAX_COMMENTS is false
StopAtMaxComments ==
  /\ op = "hunt" /\ hunt.at = "while"
  /\ hunt.commentsMade >= hunt.MAX_COMMENTS
  /\ hunt' = [hunt EXCEPT !.at = "done", !.last = "max comments"]
  /\ UNCHANGED <<notHunt, commentedUrls, recentAuthors, recentStyleIds, picked>>

\* while: the 10 minutes are over
StopAtTimeLimit ==
  /\ op = "hunt" /\ hunt.at = "while"
  /\ hunt.commentsMade < hunt.MAX_COMMENTS
  /\ hunt' = [hunt EXCEPT !.at = "done", !.last = "time limit"]
  /\ UNCHANGED <<notHunt, commentedUrls, recentAuthors, recentStyleIds, picked>>

\* for: the batch is at its end, back to the while test
EndOfBatch ==
  /\ op = "hunt" /\ hunt.at = "for"
  /\ hunt.i >= Len(hunt.postsBatch)
  /\ hunt' = [hunt EXCEPT !.at = "while"]
  /\ UNCHANGED <<notHunt, commentedUrls, recentAuthors, recentStyleIds, picked>>

\* for: break on the comment limit or the time limit; the while test then fails too
BreakBatch ==
  /\ op = "hunt" /\ hunt.at = "for"
  /\ hunt.i < Len(hunt.postsBatch)
  /\ \E why \in {"max comments", "time limit"} :
       /\ why = "max comments" => hunt.commentsMade >= hunt.MAX_COMMENTS
       /\ hunt' = [hunt EXCEPT !.at = "done", !.last = why]
  /\ UNCHANGED <<notHunt, commentedUrls, recentAuthors, recentStyleIds, picked>>

\* the post of this round, when the round gets to the tests
inRound ==
  /\ op = "hunt" /\ hunt.at = "for"
  /\ hunt.i < Len(hunt.postsBatch)
  /\ hunt.commentsMade < hunt.MAX_COMMENTS

\* for: one of the tests continues
PassOver ==
  /\ inRound
  /\ LET why == passedOver(hunt, commentedUrls, recentAuthors)
     IN /\ why # ""
        /\ hunt' = [seen(hunt, why) EXCEPT !.i = hunt.i + 1, !.last = why]
  /\ UNCHANGED <<notHunt, commentedUrls, recentAuthors, recentStyleIds, picked>>

\* the round of a post that passed the tests, up to generateComment: the sets of
\* the run and the mark that the post was evaluated
evaluating(h) ==
  [seen(h, "") EXCEPT !.evaluated = Append(h.evaluated, h.postsBatch[h.i + 1].postUrl)]

\* for: steps 6 to 10 for a post that passed the tests. outcome is what the awaited
\* calls do: generateComment throws (the catch of main ends the run) or returns
\* no valid comment (continue); page.goto or postComment throws (inner catch);
\* postComment returns false; postComment returns true and writeCommentedPost
\* returns, or throws (inner catch). After the inner try, the page.goto back to
\* the feed returns or throws (the catch of main ends the run).
Engage ==
  /\ inRound
  /\ passedOver(hunt, commentedUrls, recentAuthors) = ""
  /\ LET post == hunt.postsBatch[hunt.i + 1]
         h == evaluating(hunt)
     IN /\ \E outcome \in {"AI threw", "no valid comment", "page error", "not posted",
                           "posted", "posted, not written"},
              backOnFeed \in BOOLEAN :
             LET isPosted == outcome \in {"posted", "posted, not written"}
                 ends == outcome = "AI threw" \/ (outcome # "no valid comment" /\ ~ backOnFeed)
             IN /\ outcome \in {"AI threw", "no valid comment"} => backOnFeed
                /\ hunt' = [h EXCEPT
                     !.posted = IF isPosted
                                THEN Append(h.posted, [postUrl |-> post.postUrl,
                                                      authorName |-> post.authorName])
                                ELSE h.posted,
                     !.commentsMade = IF outcome = "posted" THEN h.commentsMade + 1
                                      ELSE h.commentsMade,
                     !.i = IF ends THEN h.i ELSE h.i + 1,
                     !.at = IF ends THEN "done" ELSE "for",
                     !.last = IF isPosted THEN "posted" ELSE "not posted"]
                /\ commentedUrls' = IF outcome = "posted"
                                    THEN commentedUrls \cup {post.postUrl}
                                    ELSE commentedUrls
                /\ recentAuthors' = IF outcome = "posted"
                                    THEN recentAuthors \cup {authorKey(post)}
                                    ELSE recentAuthors
  /\ UNCHANGED <<notHunt, recentStyleIds, picked>>

NextHunt ==
  \/ FetchBatch
  \/ StopAtMaxComments
  \/ StopAtTimeLimit
  \/ EndOfBatch
  \/ BreakBatch
  \/ PassOver
  \/ Engage

SpecHunt == InitHunt /\ [][NextHunt]_vars

\* ------------------------------------------------------------------------
\*  src/linkedin/feed.js : scrapeFeedPosts, its response listener and addPosts
\* ------------------------------------------------------------------------

JUNIOR_SIGNALS ==
  {<<"o","p","e","n"," ","t","o"," ","w","o","r","k">>, <<"l","o","o","k","i","n","g"," ","f","o","r">>, <<"a","c","t","i","v","e","l","y"," ","l","o","o","k","i","n","g">>, <<"s","e","e","k","i","n","g"," ","o","p","p","o","r","t","u","n","i","t","y">>,
   <<"s","e","e","k","i","n","g"," ","j","o","b">>, <<"f","r","e","s","h","e","r">>, <<"r","e","c","e","n","t"," ","g","r","a","d","u","a","t","e">>, <<"n","e","w"," ","g","r","a","d","u","a","t","e">>, <<"e","n","t","r","y"," ","l","e","v","e","l">>,
   <<"e","n","t","r","y","-","l","e","v","e","l">>, <<"a","s","p","i","r","i","n","g">>, <<"c","a","r","e","e","r"," ","b","r","e","a","k">>, <<"c","a","r","e","e","r"," ","s","w","i","t","c","h">>,
   <<"o","p","e","n"," ","t","o"," ","o","p","p","o","r","t","u","n","i","t","i","e","s">>, <<"j","o","b"," ","s","e","e","k","e","r">>}

isOTWOrJunior(text) == \E s \in JUNIOR_SIGNALS : includes(toLowerCase(text), s)

\* the characters of the URNs below that encodeURIComponent escapes
escaped == [c \in {":", ",", "/", "?", " "} |->
              CASE c = ":" -> <<"%", "3", "A">>
                [] c = "," -> <<"%", "2", "C">>
                [] c = "/" -> <<"%", "2", "F">>
                [] c = "?" -> <<"%", "3", "F">>
                [] c = " " -> <<"%", "2", "0">>]

RECURSIVE encodeURIComponent(_)
encodeURIComponent(s) ==
  IF Len(s) = 0 THEN <<>>
  ELSE (IF s[1] \in DOMAIN escaped THEN escaped[s[1]] ELSE <<s[1]>>)
       \o encodeURIComponent(Tail(s))

\* one item of json.included: the text, actor name, actor description and URN that
\* the chains of || select ('' when none)
RECURSIVE parseVoyagerLoop(_, _, _)
parseVoyagerLoop(items, k, parsedPosts) ==
  IF k > Len(items) THEN parsedPosts
  ELSE LET item == items[k]
           postUrl == <<"h","t","t","p","s",":","/","/","w","w","w",".","l","i","n","k","e","d","i","n",".","c","o","m","/","f","e","e","d","/","u","p","d","a","t","e","/">>
                      \o encodeURIComponent(item.urn) \o <<"/">>
       IN IF Len(item.text) = 0 \/ Len(item.text) < 80 THEN parseVoyagerLoop(items, k + 1, parsedPosts)
          ELSE IF isOTWOrJunior(item.authorName \o <<" ">> \o item.authorHeadline
                                \o <<" ">> \o item.text)
          THEN parseVoyagerLoop(items, k + 1, parsedPosts)
          ELSE IF Len(item.urn) = 0 THEN parseVoyagerLoop(items, k + 1, parsedPosts)
          ELSE parseVoyagerLoop(items, k + 1,
                 Append(parsedPosts, [postUrl |-> beforeQuery(postUrl),
                                postText |-> item.text,
                                authorName |-> IF Len(item.authorName) = 0
                                               THEN <<"U","n","k","n","o","w","n">> ELSE item.authorName,
                                authorHeadline |-> item.authorHeadline]))

parseVoyagerJson(json) == parseVoyagerLoop(json, 1, <<>>)

\* a faulty addPosts that does not look at seenUrls
RECURSIVE addPostsUnseen(_, _, _)
addPostsUnseen(list, allPosts, seenUrls) ==
  IF Len(list) = 0 THEN [allPosts |-> allPosts, seenUrls |-> seenUrls]
  ELSE LET p == list[1]
       IN IF Len(p.postUrl) > 0 /\ Len(p.postText) >= 80
          THEN addPostsUnseen(Tail(list), Append(allPosts, p), seenUrls \cup {p.postUrl})
          ELSE addPostsUnseen(Tail(list), allPosts, seenUrls)

\* addPosts(list) on the allPosts and seenUrls of the call
RECURSIVE addPosts(_, _, _)
addPosts(list, allPosts, seenUrls) ==
  IF Len(list) = 0 THEN [allPosts |-> allPosts, seenUrls |-> seenUrls]
  ELSE LET p == list[1]
       IN IF Len(p.postUrl) > 0 /\ p.postUrl \notin seenUrls /\ Len(p.postText) >= 80
          THEN addPosts(Tail(list), Append(allPosts, p), seenUrls \cup {p.postUrl})
          ELSE addPosts(Tail(list), allPosts, seenUrls)

\* the items the responses are made of
itemAnn == [text |-> bodyGood, authorName |-> nameAnn, authorHeadline |-> hlFounder,
            urn |-> <<"u","r","n",":","l","i",":","a","c","t","i","v","i","t","y",":","7","0","0","1">>]

itemBob == [text |-> bodyMid, authorName |-> nameBob, authorHeadline |-> hlSenior,
            urn |-> <<"u","r","n",":","l","i",":","a","c","t","i","v","i","t","y",":","7","0","0","2">>]

itemDee == [text |-> bodyHigh, authorName |-> <<>>, authorHeadline |-> hlFounder,
            urn |-> <<"u","r","n",":","l","i",":","a","c","t","i","v","i","t","y",":","7","0","0","3">>]

itemShort == [text |-> bodyShort, authorName |-> nameBob, authorHeadline |-> hlLong,
              urn |-> <<"u","r","n",":","l","i",":","a","c","t","i","v","i","t","y",":","7","0","0","4">>]

itemJunior == [text |-> bodyGood, authorName |-> nameGus,
               authorHeadline |-> <<"A","s","p","i","r","i","n","g"," ","d","a","t","a"," ","a","n","a","l","y","s","t">>,
               urn |-> <<"u","r","n",":","l","i",":","a","c","t","i","v","i","t","y",":","7","0","0","5">>]

itemNoUrn == [text |-> bodyGrief, authorName |-> nameGus, authorHeadline |-> hlNone,
              urn |-> <<>>]

\* the JSON bodies of the Voyager responses
voyagerBodies ==
  {<<itemAnn, itemShort>>, <<itemBob, itemAnn, itemJunior>>, <<itemDee, itemNoUrn>>}

\* parseVoyagerJson of each of the bodies
parsedBody == [json \in voyagerBodies |-> parseVoyagerJson(json)]

\* what linkWalkFallback returns: a post the API gave too, one with a short text,
\* a new one
fallbackAnn == [postUrl |-> <<"h","t","t","p","s",":","/","/","w","w","w",".","l","i","n","k","e","d","i","n",".","c","o","m","/","f","e","e","d","/","u","p","d","a","t","e","/","u","r","n","%","3","A","l","i","%","3","A","a","c","t","i","v","i","t","y","%","3","A","7","0","0","1","/">>,
                postText |-> bodyGood, authorName |-> nameAnn, authorHeadline |-> hlFounder]

fallbackShort == [postUrl |-> <<"h","t","t","p","s",":","/","/","w","w","w",".","l","i","n","k","e","d","i","n",".","c","o","m","/","f","e","e","d","/","u","p","d","a","t","e","/","u","r","n",":","l","i",":","a","c","t","i","v","i","t","y",":","7","0","0","4","/">>,
                  postText |-> bodyShort, authorName |-> nameBob, authorHeadline |-> hlLong]

fallbackGus == [postUrl |-> <<"h","t","t","p","s",":","/","/","w","w","w",".","l","i","n","k","e","d","i","n",".","c","o","m","/","f","e","e","d","/","u","p","d","a","t","e","/","u","r","n",":","l","i",":","a","c","t","i","v","i","t","y",":","7","0","0","6","/">>,
                postText |-> bodyGrief, authorName |-> nameGus, authorHeadline |-> hlNone]

fallbackResults == {<<>>, <<fallbackAnn, fallbackShort, fallbackGus>>}

\* the largest maxPosts and the most 'response' events of a call
MaxPosts == 2

MaxResponses == 3

\* the passes of the scroll loop
ScrollPasses == 8

notScrape ==
  <<op, pageId, commentedUrls, recentAuthors, thresholds, pc, nextStrategy, invoked,
    outcomes, found, posts, candidates, activeThreshold, log, result, xs, ys, zs,
    call, returned, bot, recentStyleIds, picked, hunt>>

\* scrapeFeedPosts(page, maxPosts) is called: allPosts = [], seenUrls = new Set()
InitScrape ==
  /\ op = "scrape" /\ pageId = 0
  /\ commentedUrls = {} /\ recentAuthors = {} /\ thresholds = <<>>
  /\ Idle
  /\ xs = <<>> /\ ys = <<>> /\ zs = <<>>
  /\ NoCall /\ NoBot
  /\ recentStyleIds = <<>> /\ picked = <<>> /\ hunt = <<>>
  /\ \E maxPosts \in 1..MaxPosts :
       scrape = [at |-> "api", maxPosts |-> maxPosts, allPosts |-> <<>>, seenUrls |-> {},
                 i |-> 0, listening |-> FALSE, inFlight |-> <<>>, responses |-> 0,
                 beforeFallback |-> -1, late |-> 0, returned |-> <<>>]

\* scrape with addPosts(list) done
added(s, list) ==
  LET after == addPosts(list, s.allPosts, s.seenUrls)
  IN [s EXCEPT !.allPosts = after.allPosts, !.seenUrls = after.seenUrls]

\* strategy 1: page.evaluate returns the results of the endpoints, at most one of
\* them ok with a JSON body, or the catch gives []; page.on('response', onResponse)
ApiResult ==
  /\ op = "scrape" /\ scrape.at = "api"
  /\ \E apiResult \in {<<>>} \cup {<<json>> : json \in voyagerBodies} :
       LET s == IF Len(apiResult) = 0 THEN scrape
                ELSE added(scrape, parsedBody[apiResult[1]])
       IN scrape' = [s EXCEPT !.at = "scroll", !.listening = TRUE]
  /\ UNCHANGED notScrape

\* the page emits 'response' while the listener is on: onResponse returns at once
\* for another URL, status or content type, else it awaits response.json()
OnResponse ==
  /\ op = "scrape" /\ scrape.listening
  /\ scrape.responses < MaxResponses
  /\ \/ scrape' = [scrape EXCEPT !.responses = scrape.responses + 1]
     \/ \E json \in voyagerBodies :
          scrape' = [scrape EXCEPT !.responses = scrape.responses + 1,
                                   !.inFlight = Append(scrape.inFlight, json)]
  /\ UNCHANGED notScrape

\* the sequence without its k-th element
without(seq, k) == SubSeq(seq, 1, k - 1) \o SubSeq(seq, k + 1, Len(seq))

\* response.json() of a call of onResponse settles, at whatever await the function
\* is or after it has returned: the rest of onResponse runs, addPosts included
OnResponseResumes ==
  /\ op = "scrape"
  /\ \E k \in 1..Len(scrape.inFlight), rejected \in BOOLEAN :
       LET s == IF rejected THEN scrape
                ELSE added(scrape, parsedBody[scrape.inFlight[k]])
       IN scrape' = [s EXCEPT !.inFlight = without(scrape.inFlight, k),
                              !.late = IF scrape.at = "done"
                                       THEN scrape.late + Len(s.allPosts) - Len(scrape.allPosts)
                                       ELSE scrape.late]
  /\ UNCHANGED notScrape

\* one pass of the scroll loop; passes 3 and 6 fetch another page of the feed,
\* which gives a JSON body or null
Scroll ==
  /\ op = "scrape" /\ scrape.at = "scroll" /\ scrape.i < ScrollPasses
  /\ \E extraPosts \in IF scrape.i = 3 \/ scrape.i = 6
                       THEN {<<>>} \cup {<<json>> : json \in voyagerBodies}
                       ELSE {<<>>} :
       LET s == IF Len(extraPosts) = 0 THEN scrape
                ELSE added(scrape, parsedBody[extraPosts[1]])
       IN scrape' = [s EXCEPT !.i = scrape.i + 1]
  /\ UNCHANGED notScrape

\* an awaited call of the page throws in the scroll loop or in the fallback:
\* finally takes the listener off and the call of scrapeFeedPosts rejects
PageThrows ==
  /\ op = "scrape" /\ scrape.at \in {"scroll", "fallback"}
  /\ scrape' = [scrape EXCEPT !.at = "threw", !.listening = FALSE]
  /\ UNCHANGED notScrape

\* the loop is over: page.off('response', onResponse); allPosts.length < 3, so
\* linkWalkFallback is awaited
StartFallback ==
  /\ op = "scrape" /\ scrape.at = "scroll" /\ scrape.i >= ScrollPasses
  /\ Len(scrape.allPosts) < 3
  /\ scrape' = [scrape EXCEPT !.at = "fallback", !.listening = FALSE,
                              !.beforeFallback = Len(scrape.allPosts)]
  /\ UNCHANGED notScrape

\* linkWalkFallback returns: addPosts(fallback), slice, return
ReturnAfterFallback ==
  /\ op = "scrape" /\ scrape.at = "fallback"
  /\ \E fallback \in fallbackResults :
       LET s == added(scrape, fallback)
       IN scrape' = [s EXCEPT !.at = "done",
                              !.returned = <<sliceTo(s.allPosts, s.maxPosts)>>]
  /\ UNCHANGED notScrape

\* the loop is over: page.off('response', onResponse); 3 posts or more: slice, return
ReturnWithoutFallback ==
  /\ op = "scrape" /\ scrape.at = "scroll" /\ scrape.i >= ScrollPasses
  /\ ~ (Len(scrape.allPosts) < 3)
  /\ scrape' = [scrape EXCEPT !.at = "done", !.listening = FALSE,
                              !.returned = <<sliceTo(scrape.allPosts, scrape.maxPosts)>>]
  /\ UNCHANGED notScrape

NextScrape ==
  \/ ApiResult
  \/ OnResponse
  \/ OnResponseResumes
  \/ Scroll
  \/ PageThrows
  \/ StartFallback
  \/ ReturnAfterFallback
  \/ ReturnWithoutFallback

SpecScrape == InitScrape /\ [][NextScrape]_vars

\* ------------------------------------------------------------------------
\*  Properties of findOneInterestingPost and getFeedPostsBatch (under Spec)
\* ------------------------------------------------------------------------

FindReturned == op = "find" /\ pc = "done" /\ result # <<>>

\* the posts the scoring loop scored (neither skipped nor excluded), by index
survivors == {i \in 1..Len(log) : log[i].reason = ""}

reaches(t) == \E i \in survivors : log[i].score >= t

descending(th) == \A k \in 1..(Len(th) - 1) : th[k] > th[k + 1]

noneFound == \A k \in 1..Len(outcomes) : outcomes[k] # "found"

\* C1: findOneInterestingPost never returns a post that has a SENTIMENT_SKIP phrase
\* in the first 600 characters of its lowercased text (the grief / tragedy rule of
\* shouldSkip), whatever the post's composite total.
C1_GriefPostNeverReturned == FindReturned => ~ isSentimentPost(result[1].postText)

\* the only post of the page is a grief post with a URL whose total reaches every
\* threshold of the call, and the call returned null
C1_Witness ==
  /\ op = "find" /\ pc = "done" /\ result = <<>>
  /\ Len(posts) = 1
  /\ isSentimentPost(posts[1].postText)
  /\ log[1].reason = "Post is about grief / tragedy - skip out of respect"
  /\ Len(thresholds) > 0
  /\ \A k \in 1..Len(thresholds) : scoreAt(posts, 0).total >= thresholds[k]

\* C2: the post returned by findOneInterestingPost has a postUrl that is neither
\* null nor empty; a post without URL is never returned, whatever its score.
C2_ReturnedPostHasUrl ==
  FindReturned => (result[1].postUrl # Null /\ Len(result[1].postUrl) > 0)

\* a post without URL whose total reaches the highest threshold was passed over
C2_Witness ==
  /\ op = "find" /\ pc = "done" /\ result = <<>>
  /\ Len(thresholds) > 0
  /\ \E i \in 1..Len(posts) :
       /\ posts[i].postUrl = Null
       /\ log[i].reason = "No URL"
       /\ scoreAt(posts, i - 1).total >= thresholds[1]

\* C3: the post returned by findOneInterestingPost has a postUrl outside
\* commentedUrls and an authorName whose lowercase form is outside recentAuthors;
\* when every extracted post is in one of the two sets the result is null.
C3_ReturnedPostNotExcluded ==
  (op = "find" /\ pc = "done") =>
    /\ result # <<>> =>
         /\ result[1].postUrl \notin commentedUrls
         /\ toLowerCase(result[1].authorName) \notin recentAuthors
    /\ (\A i \in 1..Len(posts) :
          \/ posts[i].postUrl \in commentedUrls
          \/ toLowerCase(posts[i].authorName) \in recentAuthors) => result = <<>>

\* a post was returned although one post of the page had been commented on and the
\* author of another was in the cooldown set
C3_Witness ==
  /\ FindReturned
  /\ \E i \in 1..Len(posts) : posts[i].postUrl \in commentedUrls
  /\ \E j \in 1..Len(posts) :
       /\ posts[j].postUrl \notin commentedUrls
       /\ toLowerCase(posts[j].authorName) \in recentAuthors

\* C4: for a descending thresholds list, the active threshold is the first value t of
\* thresholds that some scored post reaches (total >= t), and the call returns null
\* exactly when no scored post reaches any value of thresholds; totals 72 and 58
\* with thresholds [80, 70, 60] give the active threshold 70 and the post of total 72.
C4_ActiveThresholdIsFirstReached ==
  (op = "find" /\ pc = "done" /\ descending(thresholds)) =>
    /\ result = <<>> <=> ~ \E k \in 1..Len(thresholds) : reaches(thresholds[k])
    /\ result # <<>> =>
         \E k \in 1..Len(thresholds) :
           /\ activeThreshold = thresholds[k]
           /\ reaches(thresholds[k])
           /\ \A j \in 1..(k - 1) : ~ reaches(thresholds[j])
    /\ (/\ thresholds = <<80, 70, 60>>
        /\ [i \in 1..Len(log) |-> log[i].score] = <<72, 58>>) =>
         /\ result # <<>>
         /\ activeThreshold = 70
         /\ result[1].compositeScore = 72

\* the two scored posts have the totals 72 and 58, the thresholds are [80, 70, 60]
C4_Witness ==
  /\ FindReturned
  /\ thresholds = <<80, 70, 60>>
  /\ Len(log) = 2 /\ survivors = {1, 2}
  /\ log[1].score = 72 /\ log[2].score = 58
  /\ activeThreshold = 70
  /\ result[1].compositeScore = 72

\* C5: the returned post's total is >= the active threshold and >= the total of
\* every candidate that meets the active threshold; of several candidates with the
\* highest total, the first in the order of the deduplicated list is returned.
C5_WinnerIsFirstMaximum ==
  FindReturned =>
    LET valid == {i \in 1..Len(candidates) :
                    candidates[i].compositeScore >= activeThreshold}
    IN /\ result[1].compositeScore >= activeThreshold
       /\ \A i \in valid : result[1].compositeScore >= candidates[i].compositeScore
       /\ \E i \in valid :
            /\ candidates[i] = result[1]
            /\ \A j \in valid :
                 candidates[j].compositeScore = result[1].compositeScore => i <= j

\* two different candidates share the highest total and the earlier one is returned
C5_Witness ==
  /\ FindReturned
  /\ \E i, j \in 1..Len(candidates) :
       /\ i < j
       /\ candidates[i] # candidates[j]
       /\ candidates[i].compositeScore = candidates[j].compositeScore
       /\ \A k \in 1..Len(candidates) :
            candidates[k].compositeScore <= candidates[i].compositeScore
       /\ result[1] = candidates[i]

\* the list returned by the k-th strategy on a page
strategyResult(k, page) ==
  CASE k = 1 -> collectByLinkWalk(page)
    [] k = 2 -> collectByDataUrn(page)
    [] k = 3 -> collectByBodyText(page)

\* C6: in findOneInterestingPost and in getFeedPostsBatch the strategies are invoked
\* in the order link-walk, data-urn walk, body-text; once a strategy has returned a
\* non-empty list no later strategy is invoked, and the result of the cascade holds
\* only the records of that strategy.
C6_CascadeStopsAtFirstNonEmpty ==
  /\ invoked = SubSeq(strategyNames, 1, Len(invoked))
  /\ \A k \in 1..(Len(outcomes) - 1) : outcomes[k] # "found"
  /\ (pc = "done" /\ ~ noneFound) =>
       LET first == CHOOSE k \in 1..Len(outcomes) :
                      outcomes[k] = "found" /\ \A j \in 1..(k - 1) : outcomes[j] # "found"
           records == strategyResult(first, Pages[pageId])
       IN \A i \in 1..Len(IF op = "find" THEN posts ELSE result) :
            \E r \in 1..Len(records) :
              (IF op = "find" THEN posts ELSE result)[i] = records[r]

\* C7: an exception thrown by a strategy is caught, counts as zero results, and the
\* next strategy is tried; when every strategy throws or returns an empty list the
\* cascade ends without posts and findOneInterestingPost returns null, not throwing.
C7_StrategyFailureIsContained ==
  /\ Len(outcomes) > 0 => pc # "threw"
  /\ (Len(outcomes) > 0 /\ outcomes[Len(outcomes)] = "threw") => found = <<>>
  /\ (pc = "cascade" /\ noneFound) =>
       (nextStrategy = Len(outcomes) + 1 /\ posts = <<>>)
  /\ (pc = "done" /\ noneFound) => (invoked = strategyNames /\ result = <<>>)

\* the first strategy threw, no strategy found a post, and the call returned null
C7_Witness ==
  /\ op = "find" /\ pc = "done" /\ result = <<>>
  /\ Len(outcomes) = 3 /\ noneFound
  /\ outcomes[1] = "threw" /\ outcomes[2] = "empty" /\ outcomes[3] = "threw"

\* C8: every record returned by collectByLinkWalk, collectByDataUrn and
\* collectByBodyText has a postText of at least 80 characters.
C8_StrategyRecordsAreLongEnough ==
  \A i \in 1..Len(found) : Len(found[i].postText) >= 80

\* ------------------------------------------------------------------------
\*  Properties of dedup (under SpecDedup)
\* ------------------------------------------------------------------------

RECURSIVE isSubsequence(_, _)
isSubsequence(s, t) ==
  IF Len(s) = 0 THEN TRUE
  ELSE IF Len(t) = 0 THEN FALSE
  ELSE IF s[1] = t[1] THEN isSubsequence(Tail(s), Tail(t))
  ELSE isSubsequence(s, Tail(t))

textKeyOf(p) == sliceTo(p.postText, 60)

hasUrl(p) == ~ falsy(p.postUrl)

\* C9: dedup(dedup(xs)) = dedup(xs), and dedup(xs) is a subsequence of xs: the
\* retained posts are input records, unmodified, in their input order.
C9_DedupIdempotentSubsequence ==
  /\ (op = "dedup" /\ pc \in {"once", "done"}) => isSubsequence(ys, xs)
  /\ (op = "dedup" /\ pc = "done") => zs = ys

\* dedup dropped a post, retained several, and was applied twice
C9_Witness ==
  /\ op = "dedup" /\ pc = "done"
  /\ Len(ys) >= 2 /\ Len(ys) < Len(xs)
  /\ zs = ys

\* C10 as stated: two posts with distinct non-null URLs are both retained by dedup,
\* even when their texts share the first 60 characters.
C10_DistinctUrlsBothRetained ==
  (/\ op = "dedup" /\ pc \in {"once", "done"}
   /\ Len(xs) = 2
   /\ hasUrl(xs[1]) /\ hasUrl(xs[2])
   /\ xs[1].postUrl # xs[2].postUrl) => ys = xs

\* C10 amended: dedup uses two keys at once, the first 60 characters of the text
\* (always) and the URL (when non-null).  No two retained posts share a 60-character
\* prefix or a non-null URL; a post is retained when no earlier post of the list has
\* its prefix or its non-null URL; of two posts with distinct non-null URLs whose
\* texts share the first 60 characters only the first is retained.
C10_DedupUsesBothKeys ==
  (op = "dedup" /\ pc \in {"once", "done"}) =>
    /\ \A i, j \in 1..Len(ys) :
         i < j => /\ textKeyOf(ys[i]) # textKeyOf(ys[j])
                  /\ (hasUrl(ys[i]) /\ hasUrl(ys[j])) => ys[i].postUrl # ys[j].postUrl
    /\ \A j \in 1..Len(xs) :
         (\A i \in 1..(j - 1) :
            /\ textKeyOf(xs[i]) # textKeyOf(xs[j])
            /\ hasUrl(xs[j]) => xs[i].postUrl # xs[j].postUrl)
         => \E k \in 1..Len(ys) : ys[k] = xs[j]
    /\ (/\ Len(xs) = 2
        /\ hasUrl(xs[1]) /\ hasUrl(xs[2])
        /\ xs[1].postUrl # xs[2].postUrl
        /\ textKeyOf(xs[1]) = textKeyOf(xs[2])) => ys = <<xs[1]>>

\* two posts with distinct URLs and the same first 60 characters: the second is dropped
C10_Witness ==
  /\ op = "dedup" /\ pc = "done"
  /\ Len(xs) = 2
  /\ hasUrl(xs[1]) /\ hasUrl(xs[2])
  /\ xs[1].postUrl # xs[2].postUrl
  /\ xs[1].postText # xs[2].postText
  /\ textKeyOf(xs[1]) = textKeyOf(xs[2])
  /\ ys = <<xs[1]>>

\* ------------------------------------------------------------------------
\*  Properties of the functions called alone
\* ------------------------------------------------------------------------

Returned(fn) == op = "calls" /\ call.fn = fn /\ Len(returned) = 1

\* the four rule groups of shouldSkip applied to the call, in the order of the claim
groupMatches ==
  <<isOpenToWork(call.authorName, call.authorHeadline, call.postText),
    isStudent(call.authorName, call.authorHeadline, call.postText),
    isJobPost(call.postText),
    isSentimentPost(call.postText)>>

groupReasons ==
  <<"Author is Open To Work", "Author appears to be a student / junior",
    "Post is a job advertisement", "Post is about grief / tragedy - skip out of respect">>

\* C11: shouldSkip returns skip = true with the reason of the first of the groups
\* open-to-work, student/junior, job advertisement, grief that matches, and
\* skip = false with the empty reason exactly when no group matches.
C11_ShouldSkipFirstMatchingGroup ==
  Returned("shouldSkip") =>
    LET r == returned[1]
        matching == {g \in 1..4 : groupMatches[g]}
    IN /\ r.skip = (matching # {})
       /\ (r.reason = "") = (matching = {})
       /\ \A g \in matching : (\A h \in matching : g <= h) => r.reason = groupReasons[g]

\* a call in which the student, job and grief groups all match and open-to-work
\* does not: the student reason is returned
C11_Witness ==
  /\ Returned("shouldSkip")
  /\ groupMatches = <<FALSE, TRUE, TRUE, TRUE>>
  /\ returned[1] = [skip |-> TRUE, reason |-> "Author appears to be a student / junior"]

\* the breakdown compositeScore returned
breakdown == returned[1].breakdown

\* C12: for a post text of fewer than 100 characters the content sub-score
\* compositeScore reports (breakdown.heuristic) is 0, whatever the format, the
\* connection flag, the counts, the comment samples and authorReplied.
C12_ShortTextContentScoreIsZero ==
  (Returned("compositeScore") /\ Len(call.post.postText) < 100) => breakdown.heuristic = 0

\* C13: the six sub-scores compositeScore returns lie in [0,100] and the total is
\* an integer in [0,100].
C13_ScoresWithinBounds ==
  Returned("compositeScore") =>
    /\ \A k \in {"heuristic", "engagement", "seniority", "niche", "recency", "visibility"} :
         breakdown[k] \in 0..100
    /\ returned[1].total \in 0..100

\* the first post of the batch with a fresh age label: position and age bonus add up
\* to 120 before the clamp; and a position behind the batch size: negative before it
C13_Witness ==
  /\ Returned("compositeScore")
  /\ \/ /\ call.post.positionIndex = 0 /\ isJustPosted(call.post.postAge)
        /\ breakdown.recency = 100
     \/ /\ call.post.positionIndex > call.post.totalPosts
        /\ breakdown.recency = 0

\* C14: shouldComment is true exactly when the returned total is at least 30.
C14_AcceptedIffTotalReachesThreshold ==
  Returned("compositeScore") => (returned[1].shouldComment <=> returned[1].total >= 30)

\* C15: with fewer than 5 reactions the engagement sub-score is 10, whatever the
\* comment count and the age label.
C15_TooNewEngagementIsTen ==
  (Returned("compositeScore") /\ call.post.reactionCount < 5) => breakdown.engagement = 10

\* 4 reactions on a post with a fresh age label and more than 200 comments
C15_Witness ==
  /\ Returned("compositeScore")
  /\ call.post.reactionCount = 4
  /\ isJustPosted(call.post.postAge)
  /\ call.post.commentCount > 200
  /\ breakdown.engagement = 10

\* C16: with more than 10000 reactions the engagement sub-score is 15, and with 5 to
\* 10000 reactions and more than 200 comments it is 10, whatever the age label.
C16_ViralAndCrowdedBandsAreFixed ==
  Returned("compositeScore") =>
    /\ call.post.reactionCount > 10000 => breakdown.engagement = 15
    /\ (call.post.reactionCount \in 5..10000 /\ call.post.commentCount > 200)
         => breakdown.engagement = 10

\* the entries of SENIORITY_SIGNALS whose keyword occurs in the lowercase headline
matchingSignals ==
  {k \in 1..Len(SENIORITY_SIGNALS) :
     includes(toLowerCase(call.authorHeadline), SENIORITY_SIGNALS[k][1])}

firstSignal == CHOOSE k \in matchingSignals : \A m \in matchingSignals : k <= m

maxPoints ==
  CHOOSE p \in {SENIORITY_SIGNALS[k][2] : k \in matchingSignals} :
    \A k \in matchingSignals : SENIORITY_SIGNALS[k][2] <= p

\* the creator / investor terms of the headline
proxyTerms ==
  {t \in {<<"c","r","e","a","t","o","r">>, <<"n","e","w","s","l","e","t","t","e","r">>, <<"a","n","g","e","l">>, <<"i","n","v","e","s","t","o","r">>} :
     includes(toLowerCase(call.authorHeadline), t)}

proxyBoostOfHeadline ==
  (IF proxyTerms \cap {<<"c","r","e","a","t","o","r">>, <<"n","e","w","s","l","e","t","t","e","r">>} # {} THEN 15 ELSE 0)
  + (IF proxyTerms \cap {<<"a","n","g","e","l">>, <<"i","n","v","e","s","t","o","r">>} # {} THEN 10 ELSE 0)

C18_VisibilityNonIncreasing ==
  Returned("calcCommentVisibilityScore") =>
    \A a \in 0..call.commentCount : calcCommentVisibilityScore(a) >= returned[1]

\* C18 amended: from 6 comments on the visibility sub-score never rises with the
\* comment count; 0..5 comments score 90, below the 100 of 6..20 comments.
C18_VisibilityNonIncreasingFromSix ==
  Returned("calcCommentVisibilityScore") =>
    /\ \A a \in 6..call.commentCount : calcCommentVisibilityScore(a) >= returned[1]
    /\ call.commentCount <= 5 => returned[1] = 90
    /\ call.commentCount \in 6..20 => returned[1] = 100

\* the step up from 5 to 6 comments, and the last step down
C18_Witness ==
  /\ Returned("calcCommentVisibilityScore")
  /\ \/ call.commentCount = 6 /\ returned[1] = 100 /\ calcCommentVisibilityScore(5) = 90
     \/ call.commentCount = 201 /\ returned[1] = 10 /\ calcCommentVisibilityScore(200) = 25

\* a line one of the two parsers takes as the author's name
acceptedAsName(fn, ln) ==
  /\ ~ rejectedLine(ln)
  /\ wordCount(ln) \in 1..8
  /\ IF fn = "parseAuthorFromLines" THEN ~ isChromeLine(ln) /\ hasLetter(ln)
     ELSE isRealAuthorName(ln)

\* none of the lines the parser looks at (the first 15) is accepted as a name
noNameLine ==
  \A k \in 1..Min(Len(call.lines), 15) : ~ acceptedAsName(call.fn, call.lines[k])

\* the position before line k in the lines joined with single spaces
RECURSIVE offsetOf(_, _)
offsetOf(lines, k) == IF k = 1 THEN 0 ELSE offsetOf(lines, k - 1) + Len(lines[k - 1]) + 1

\* text is the lines joined with single spaces
isJoinOf(text, lines) ==
  IF Len(lines) = 0 THEN text = <<>>
  ELSE /\ Len(text) = offsetOf(lines, Len(lines)) + Len(lines[Len(lines)])
       /\ \A k \in 1..Len(lines) :
            /\ SubSeq(text, offsetOf(lines, k) + 1, offsetOf(lines, k) + Len(lines[k])) = lines[k]
            /\ k > 1 => text[offsetOf(lines, k)] = " "

ReturnedByParser ==
  Returned("parseAuthorFromLines") \/ Returned("inPageParseAuthorFromLines")

\* C19: on non-empty trimmed lines none of which is accepted as a name, both
\* parseAuthorFromLines return authorName "Unknown", an empty authorHeadline and as
\* postText all the lines joined with single spaces.
C19_NoNameKeepsEveryLine ==
  (ReturnedByParser /\ noNameLine) =>
    /\ returned[1].authorName = <<"U","n","k","n","o","w","n">>
    /\ returned[1].authorHeadline = <<>>
    /\ isJoinOf(returned[1].postText, call.lines)

\* three lines and no name among them, the first a line that the module-level parser
\* passes over as chrome
C19_Witness ==
  /\ Returned("parseAuthorFromLines")
  /\ noNameLine
  /\ Len(call.lines) = 3
  /\ isChromeLine(call.lines[1])
  /\ call.lines[2] # call.lines[3]
  /\ Len(returned[1].postText) = Len(call.lines[1]) + Len(call.lines[2]) + Len(call.lines[3]) + 2

\* ------------------------------------------------------------------------
\*  Properties of main() of bot.js
\* ------------------------------------------------------------------------

\* C20: in a run of main, postComment never succeeds twice for the same post URL and
\* never for a URL of the commented-posts set loaded at the start.
C20_NoCommentTwiceOnOneUrl ==
  op = "bot" =>
    /\ \A i, j \in 1..Len(bot.succeeded) : bot.succeeded[i] = bot.succeeded[j] => i = j
    /\ \A i \in 1..Len(bot.succeeded) : bot.succeeded[i] \notin bot.loaded

\* C21: when dailyCap - todayCount <= 0 the run ends without a browser session and
\* without a comment; otherwise the comments posted in the run never exceed
\* dailyCap - todayCount, so todayCount + commentCount <= dailyCap throughout.
C21_DailyCapIsKept ==
  op = "bot" =>
    /\ bot.commentCount = Len(bot.csv)
    /\ bot.commentCount <= Len(bot.succeeded)
    /\ bot.dailyCap - bot.todayCount <= 0 =>
         /\ ~ bot.session
         /\ bot.succeeded = <<>>
         /\ bot.at \in {"quota", "done"}
    /\ bot.dailyCap - bot.todayCount > 0 =>
         /\ Len(bot.succeeded) <= bot.dailyCap - bot.todayCount
         /\ bot.todayCount + bot.commentCount <= bot.dailyCap

\* one comment was recorded today, the run posts the one the cap still allows and
\* breaks with a scored post left over
C21_Witness ==
  /\ op = "bot"
  /\ bot.todayCount = 1
  /\ bot.last = "cap reached"
  /\ bot.todayCount + bot.commentCount = bot.dailyCap
  /\ bot.i <= Len(bot.scoredPosts)

\* what main has recorded of its comments: the rows appended to the CSV, the
\* in-memory set and the count
recorded(b) == <<b.csv, b.commentedPosts, b.commentCount>>

\* C28: in main, a post URL is appended to the commented-posts CSV and added to
\* commentedPosts only in a round where postComment returned true for that URL, and
\* then the count grows by one; a round where generateComment throws or postComment
\* throws or returns false changes none of the three.
C28_RecordedOnlyAfterPosted ==
  [][op = "bot" =>
       /\ recorded(bot') # recorded(bot) =>
            /\ bot.at = "comment"
            /\ LET url == bot.scoredPosts[bot.i].postUrl
               IN /\ bot'.succeeded = Append(bot.succeeded, url)
                  /\ bot'.csv = Append(bot.csv, url)
                  /\ bot'.commentedPosts = bot.commentedPosts \cup {url}
                  /\ bot'.commentCount = bot.commentCount + 1
       /\ bot'.succeeded = bot.succeeded => recorded(bot') = recorded(bot)]_vars

\* the round of the first of two scored posts failed and left no record, the round of
\* the second posted and recorded its URL
C28_Witness ==
  /\ op = "bot" /\ bot.at = "done"
  /\ Len(bot.scoredPosts) = 2
  /\ bot.succeeded = <<bot.scoredPosts[2].postUrl>>
  /\ bot.csv = bot.succeeded
  /\ bot.commentedPosts = bot.loaded \cup {bot.scoredPosts[2].postUrl}
  /\ bot.scoredPosts[1].postUrl \notin bot.commentedPosts
  /\ bot.commentCount = 1

\* ------------------------------------------------------------------------
\*  Properties of the continuous engagement loop
\* ------------------------------------------------------------------------

\* no value occurs twice in the sequence
noRepeat(seq) == \A i, j \in 1..Len(seq) : seq[i] = seq[j] => i = j

\* the comments postComment has posted in the run stay within MAX_COMMENTS
withinMaxComments == Len(hunt.posted) <= hunt.MAX_COMMENTS

\* no URL was evaluated for a comment twice, none was commented on twice
eachUrlOnce ==
  /\ noRepeat(hunt.evaluated)
  /\ noRepeat([k \in 1..Len(hunt.posted) |-> hunt.posted[k].postUrl])

\* no author, names compared in lower case, has two posts commented on
eachAuthorOnce ==
  noRepeat([k \in 1..Len(hunt.posted) |-> toLowerCase(hunt.posted[k].authorName)])

\* C29: in the continuous engagement loop, over any sequence of feed batches, at most
\* MAX_COMMENTS comments are posted, each post URL is evaluated at most once and
\* commented on at most once, and once a comment is posted on an author's post no
\* other post of that author (names compared case-insensitively) is commented on.
C29_LimitsOfTheRun ==
  op = "hunt" => withinMaxComments /\ eachUrlOnce /\ eachAuthorOnce

\* the same for the runs in which every writeCommentedPost has returned
C29_LimitsWhenEveryRowIsWritten ==
  (op = "hunt" /\ hunt.commentsMade = Len(hunt.posted)) =>
    withinMaxComments /\ eachUrlOnce /\ eachAuthorOnce

\* ------------------------------------------------------------------------
\*  Properties of scrapeFeedPosts
\* ------------------------------------------------------------------------

\* the list a call of scrapeFeedPosts returned is well formed: no postUrl twice, each
\* post with a postUrl and a postText of 80 characters or more, maxPosts at most
wellFormedList(list, maxPosts) ==
  /\ noRepeat([k \in 1..Len(list) |-> list[k].postUrl])
  /\ \A k \in 1..Len(list) : Len(list[k].postUrl) > 0 /\ Len(list[k].postText) >= 80
  /\ Len(list) <= maxPosts

\* C30: under every interleaving of the 'response' callbacks with the scroll loop,
\* the list scrapeFeedPosts returns has no two posts with the same postUrl, only
\* posts with a non-empty postUrl and a postText of length >= 80, and at most
\* maxPosts entries; a callback that completes after the return does not change
\* the returned list; the link-walk fallback runs only when fewer than 3 posts
\* were collected.
C30_ReturnedListUnderInterleavings ==
  /\ [](op = "scrape" =>
          /\ scrape.returned # <<>> => wellFormedList(scrape.returned[1], scrape.maxPosts)
          /\ scrape.beforeFallback < 3
          /\ scrape.at = "fallback" => scrape.beforeFallback >= 0)
  /\ [][(op = "scrape" /\ scrape.returned # <<>>) => scrape'.returned = scrape.returned]_vars

\* two posts were collected when the loop ended, the fallback ran and added a third,
\* the list was cut to maxPosts = 2, and a callback that completed after the return
\* added a post to allPosts
C30_Witness ==
  /\ op = "scrape" /\ scrape.at = "done"
  /\ scrape.beforeFallback = 2
  /\ scrape.maxPosts = 2 /\ Len(scrape.returned[1]) = 2
  /\ scrape.late > 0
  /\ Len(scrape.allPosts) >= 4

\* ------------------------------------------------------------------------
\*  Properties of pickRandomStyle
\* ------------------------------------------------------------------------

\* C22: the style a call of pickRandomStyle returns is none of the (up to 3) styles
\* the calls before it returned, which are what the memory holds; the memory never
\* holds more than 3 ids nor the same id twice.
C22_StyleNotInMemory ==
  op = "styles" =>
    /\ \A k \in 1..Len(picked) : \A d \in 1..3 : k - d >= 1 => picked[k] # picked[k - d]
    /\ recentStyleIds = SubSeq(picked, Max(1, Len(picked) - 2), Len(picked))
    /\ Len(recentStyleIds) <= 3
    /\ \A i, j \in 1..Len(recentStyleIds) : recentStyleIds[i] = recentStyleIds[j] => i = j

\* a fifth call: the memory is full and the first style, shifted out of it, comes back
C22_Witness ==
  /\ op = "styles"
  /\ Len(picked) = 5
  /\ picked[5] = picked[1]
  /\ Len(recentStyleIds) = 3

\* ------------------------------------------------------------------------
\*  Further properties of findOneInterestingPost
\* ------------------------------------------------------------------------

\* the composite score of the full record of posts[k]: its own fields, the parsed
\* engagement and its place in the batch
fullRecordScore(k) ==
  LET eng == parseEngagement(posts[k].cardText)
  IN compositeScore([reactionCount |-> eng.reactionCount,
                     commentCount |-> eng.commentCount,
                     positionIndex |-> k - 1,
                     totalPosts |-> Len(posts)] @@ posts[k])

\* C23: the total findOneInterestingPost ranks a candidate by is the composite score
\* of the candidate's full record, isConnection, format, comment samples,
\* authorReplied and age label included.
C23_RankedByFullRecordScore ==
  (op = "find" /\ pc = "done") =>
    \A k \in survivors : log[k].score = fullRecordScore(k).total

\* the anchor link-walk and the data-urn walk were tried and neither found a post
walksFoundNothing ==
  /\ op = "find" /\ pc = "done"
  /\ Len(outcomes) = 3
  /\ outcomes[1] # "found" /\ outcomes[2] # "found"

\* C27: when the anchor link-walk and the data-urn walk both yield no record (empty
\* or error), findOneInterestingPost returns null whatever the body-text parse
\* yields: every post of the fallback has postUrl null and is skipped before it is
\* filtered or scored.
C27_FallbackNeverSelected ==
  walksFoundNothing =>
    /\ result = <<>>
    /\ candidates = <<>>
    /\ Len(log) = Len(posts)
    /\ \A i \in 1..Len(posts) :
         posts[i].postUrl = Null /\ log[i] = [reason |-> "No URL", score |-> -1]

\* the data-urn walk threw, the body-text parse found posts, one of which would
\* have reached the highest threshold, and the call returned null
C27_Witness ==
  /\ walksFoundNothing
  /\ outcomes = <<"empty", "threw", "found">>
  /\ Len(posts) > 0
  /\ Len(thresholds) > 0
  /\ \E i \in 1..Len(posts) : scoreAt(posts, i - 1).total >= thresholds[1]
  /\ result = <<>>

\* ------------------------------------------------------------------------
\*  Further properties of the parser
\* ------------------------------------------------------------------------

\* a phrase of the interface-chrome denylist of either parser
denylisted(ln) ==
  \/ isChromeLine(ln)
  \/ \E k \in 1..Len(fakePrefixes) : startsWith(toLowerCase(ln), fakePrefixes[k])
  \/ \E k \in 1..Len(fakeExact) : toLowerCase(ln) = fakeExact[k]

\* C24: the authorName a parser returns is "Unknown" or an input line of 1 to 8
\* words, at most 80 characters, without "http" and not on the denylist; the
\* authorHeadline is empty or an input line after the name line, of at most 14 words,
\* at most 80 characters, without "http" and not on the denylist.
C24_NameAndHeadlineAreAcceptedLines ==
  ReturnedByParser =>
    LET name == returned[1].authorName
        headline == returned[1].authorHeadline
        lines == call.lines
    IN /\ \/ name = <<"U","n","k","n","o","w","n">>
          \/ \E i \in 1..Len(lines) :
               /\ lines[i] = name
               /\ wordCount(name) \in 1..8 /\ ~ rejectedLine(name) /\ ~ denylisted(name)
       /\ \/ headline = <<>>
          \/ \E i, j \in 1..Len(lines) :
               /\ i < j /\ lines[i] = name /\ lines[j] = headline
               /\ wordCount(headline) <= 14 /\ ~ rejectedLine(headline)
               /\ ~ denylisted(headline)

\* the record the other copy of the parser returns for the lines of the call
otherParser ==
  IF call.fn = "parseAuthorFromLines" THEN inPageParseAuthorFromLines(call.lines)
  ELSE parseAuthorFromLines(call.lines)

\* C25: the copy of parseAuthorFromLines inside collectByLinkWalk and
\* collectByDataUrn and the module-level one used by collectByBodyText return the same
\* record for every sequence of lines.
C25_ParserCopiesAgree ==
  ReturnedByParser => returned[1] = otherParser

\* ------------------------------------------------------------------------
\*  Further properties of dedup
\* ------------------------------------------------------------------------

\* the two posts have the same 60-character prefix or the same non-null URL
duplicates(p, q) ==
  \/ textKeyOf(p) = textKeyOf(q)
  \/ hasUrl(p) /\ hasUrl(q) /\ p.postUrl = q.postUrl

\* C26: every post dedup removes duplicates a post it retains (every input post has
\* the 60-character prefix or the non-null URL of some post of the output), and no
\* two posts of the output share a prefix or a non-null URL.
C26_RemovedDuplicatesRetained ==
  (op = "dedup" /\ pc \in {"once", "done"}) =>
    /\ \A j \in 1..Len(xs) : \E k \in 1..Len(ys) : duplicates(xs[j], ys[k])
    /\ \A i, j \in 1..Len(ys) : i # j => ~ duplicates(ys[i], ys[j])
====
